---- MODULE Spec2Model ----
(***************************************************************************)
(* A model of the StreamChat client (src/src/client.js): the session entry *)
(* points (setUser, setAnonymousUser, setGuestUser, connect, disconnect),  *)
(* the listener registry (on, off), the event dispatcher (dispatchEvent,   *)
(* _handleClientEvent), the table of channels (channel), the request       *)
(* helpers (get, post, put, patch, delete), the queries (queryChannels,    *)
(* queryUsers, search), the recovery callback (recoverState) and the       *)
(* cleaning interval (_startCleaning).                                     *)
(*                                                                         *)
(* The classes StableWSConnection, Channel and ClientState are imported by *)
(* client.js but their code is not part of the sources. What client.js     *)
(* calls of them is modelled after the specification of the library: the   *)
(* connection manager (first attempt, retries, reconnects, the connect     *)
(* promise), the Channel State Cache (_initializeState, _handleChannelEvent,*)
(* clean, sendMessage) and the user cache (updateUser).                    *)
(***************************************************************************)
EXTENDS Integers, Sequences, FiniteSets, TLC

\* ------------------------------------------------------------- bounds
MaxConns == 3        \* StableWSConnection objects created in one run
MaxEvents == 3       \* events arriving for channels of the session in one run
MaxListeners == 3    \* listener registrations held at one time
MaxSetups == 3       \* calls of _setupConnection (uuids drawn) in one run
MaxReentrant == 1    \* on()/off() calls listeners make during one dispatch
MaxTicks == 2        \* runs of the cleaning interval that reach a channel
MaxExtra == 1        \* channels a session holds beyond the recovery limit

\* ------------------------------------------------- program constants
MaxQs == 1900        \* client.js:542, longest accepted handshake query
RecoveryLimit == 30  \* client.js:517, the limit option of the recovery query

\* ------------------------------------------------------ value domains
Null == "null"
Undefined == "undefined"
UserIds == {"u1", "u2"}
AnonId == "anon"                      \* the uuid setAnonymousUser draws
Tokens == {"tok_u1", "tok_u2", "tok_nouser"}
QsSizes == {MaxQs, MaxQs + 1}         \* length of the encoded handshake query
Callbacks == {"f", "g", "h"}
Scopes == {"all", "message.new"}      \* scopes listeners are registered under
ChannelTypes == {"messaging", "mess:aging"}
ChannelIds == {"a", "b", "a:b"}
Cids == {<<"messaging", "a">>, <<"messaging", "b">>}   \* the cids 'type:id'
NoCid == <<"", "">>                                     \* an event without cid
EventTypes == {"message.new", "message.updated", "message.deleted", "user.updated", "user.presence.changed",
               "health.check", "notification.message_new",
               "connection.recovered", "location.sharing_started",
               "location.updated", "location.sharing_stopped"}
NoUser == [id |-> Undefined, qs |-> 0]

\* a user object: its id and the length it adds to the handshake query
UserOf(id) == [id |-> id, qs |-> MaxQs]

\* the values that stand for an absent channel and an absent live location
\* (a live location the server sends has its updated_at set)
NoChannel == [type |-> Undefined, config |-> Undefined]
NoLocation == [lat |-> 0, lon |-> 0, accuracy |-> 0, updated_at |-> 0]

\* an event: its type, its cid and the payload fields the client and the
\* channels read, absent unless the event carries them (message: the id of
\* the message an update or a deletion is about, 0 for none)
Ev(type, cid) == [type |-> type, cid |-> cid, user |-> NoUser, me |-> NoUser,
                  channel |-> NoChannel, location |-> NoLocation, message |-> 0]

\* the event being dispatched and its number in arrival order
Numbered(event, n) ==
    [n |-> n, type |-> event.type, cid |-> event.cid, user |-> event.user,
     me |-> event.me, channel |-> event.channel, location |-> event.location,
     message |-> event.message]

NoEvent == Numbered(Ev("none", NoCid), 0)

\* JWTUserToken(secret, userID): the token the server secret signs for a user
createToken(userID) == IF userID = "u1" THEN "tok_u1" ELSE
                       IF userID = "u2" THEN "tok_u2" ELSE "tok_nouser"

\* UserFromToken(token): the user id embedded in a token, Null when absent
UserFromToken(token) == IF token = "tok_u1" THEN "u1" ELSE
                        IF token = "tok_u2" THEN "u2" ELSE Null

\* the elements of a list
Range(seq) == {seq[i] : i \in DOMAIN seq}

\* JavaScript truthiness of this.userID
Truthy(v) == v \notin {Null, Undefined, ""}

VARIABLES
    client,          \* the fields of the StreamChat object
    conns,           \* the StableWSConnection objects created so far
    guest,           \* setGuestUser: position of the pending call
    listeners,       \* this.listeners: scope -> list of callbacks
    activeChannels,  \* this.activeChannels: the cids with a Channel object
    chanLog,         \* per channel, the events _handleChannelEvent received
    pc,              \* dispatchEvent: "idle" or "listeners"
    cur,             \* the event being dispatched
    pending,         \* the listeners gathered and not yet called
    invoked,         \* history: listeners called for cur, in call order
    threw,           \* history: the last dispatch ended by an exception
    startListeners,  \* history: this.listeners when the dispatch of cur began
    startReg,        \* history: regOrder when the dispatch of cur began
    reentered,       \* history: on()/off() calls made by listeners for cur
    regOrder,        \* history: the live registrations in on() order
    expected,        \* history: per channel, the events that arrived for it
    lastCall,        \* history: the last call of a session method, or the last
                     \* event of a connection, and its outcome
    wsPromises,      \* per connection, the promise its connect() returned
    handleOf,        \* this.activeChannels[cid]: which of the Channel objects
                     \* built for the cid the table holds
    requested,       \* history: the cids channel() was asked for and returned
    query,           \* the call of queryChannels, queryUsers or search under way
    rec,             \* the run of recoverState under way, or the last one
    lastHttp,        \* history: the last completed helper call of the
                     \* application or of a query (get, post, put, patch, delete)
    cleans,          \* history: runs of the cleaning interval that called clean()
    channelState,    \* per channel, channel.state: the Channel State Cache
    observed,        \* history: per channel, the live locations the listeners
                     \* of the channel found in the cache at their last call
    lifecycle        \* history: per channel and user, the last live-location
                     \* event the cache applied

sessionVars == <<client, conns, guest, wsPromises>>
registryVars == <<listeners, regOrder>>
cacheVars == <<channelState, observed, lifecycle>>
channelVars == <<activeChannels, handleOf, requested, chanLog, expected,
                 channelState, observed, lifecycle>>
asyncVars == <<query, rec, cleans>>
dispatchVars == <<pc, cur, pending, invoked, threw, startListeners, startReg,
                  reentered>>
vars == <<client, conns, guest, listeners, activeChannels, chanLog, pc, cur,
          pending, invoked, threw, startListeners, startReg, reentered,
          regOrder, expected, lastCall, wsPromises, handleOf, requested,
          query, rec, lastHttp, cleans, channelState, observed, lifecycle>>

Call(op, arg, res, n) == [op |-> op, arg |-> arg, res |-> res, n |-> n]

\* ----------------------------------------------------------- session
\* constructor: the fields a new StreamChat holds
NewClient(secret) ==
    [ secret |-> secret, userID |-> Undefined, userToken |-> Null,
      user |-> NoUser, _user |-> NoUser, anonymous |-> "false",
      UUID |-> 0, clientID |-> <<Undefined, 0>>,
      wsConnection |-> 0, wsPromise |-> 0,
      state |-> [u \in UserIds |-> NoUser],
      configs |-> [t \in ChannelTypes |-> Null],
      cleaningIntervalRef |-> "scheduled" ]

NumConns(k) == Cardinality({i \in DOMAIN k : k[i] # "none"})

\* the options connect() passes to new StableWSConnection
Options(c) == [clientID |-> c.clientID, userID |-> c.userID]

\* the result of running a method: the object, the connections, the outcome
\* and, when it built a StableWSConnection, the options it built it with
Ret(c, k, res) == [client |-> c, conns |-> k, res |-> res, options |-> Null]

\* a connect() that takes a query of MaxQs characters for too large
connectBelowMaxQs(c, k) ==
    IF c.userID \in {Null, Undefined}
    THEN Ret(c, k, "throw:nouser")
    ELSE IF c._user.qs >= MaxQs
    THEN Ret(c, k, "throw:toolarge")
    ELSE LET id == NumConns(k) + 1
         IN [Ret([c EXCEPT !.wsConnection = id, !.wsPromise = id],
                     [k EXCEPT ![id] = "connecting"], "ok")
               EXCEPT !.options = Options(c)]

\* connect(): a fresh StableWSConnection replaces this.wsConnection and its
\* connect() promise replaces this.wsPromise
connect(c, k) ==
    IF c.userID \in {Null, Undefined}
    THEN Ret(c, k, "throw:nouser")
    ELSE IF c._user.qs > MaxQs
    THEN Ret(c, k, "throw:toolarge")
    ELSE LET id == NumConns(k) + 1
         IN [Ret([c EXCEPT !.wsConnection = id, !.wsPromise = id],
                     [k EXCEPT ![id] = "connecting"], "ok")
               EXCEPT !.options = Options(c)]

\* a _setupConnection that calls connect() before it sets the client ID
_setupConnectionLate(c, k) ==
    LET u == c.UUID + 1
        r == connect(c, k)
    IN [r EXCEPT !.client = [@ EXCEPT !.UUID = u, !.clientID = <<c.userID, u>>]]

\* _setupConnection(): new UUID, clientID, then connect()
_setupConnection(c, k) ==
    LET u == c.UUID + 1
    IN connect([c EXCEPT !.UUID = u, !.clientID = <<c.userID, u>>], k)

\* _setUser(user)
_setUser(c, user) == [c EXCEPT !.user = user, !._user = user]

\* setUser after its guard: the user id, the token, the user, the connection
setUserBody(c, k, id, userToken, qs) ==
    LET c1 == [c EXCEPT !.userID = id] IN
    IF ~Truthy(id) THEN Ret(c1, k, "throw:noid")
    ELSE LET tok == IF userToken = Null /\ c.secret # Null
                    THEN createToken(id) ELSE userToken
             c2 == [c1 EXCEPT !.userToken = tok] IN
    IF tok = Null THEN Ret(c2, k, "throw:notoken")
    ELSE IF userToken # Null /\ UserFromToken(tok) # id
    THEN Ret(c2, k, "throw:tokenuser")
    ELSE _setupConnection([_setUser(c2, [id |-> id, qs |-> qs]) EXCEPT !.anonymous = "false"], k)

\* a setUser that lacks the guard on this.userID
setUserNoGuard(c, k, id, userToken, qs) == setUserBody(c, k, id, userToken, qs)

\* setUser(user, userToken): user.id is id, the user object encodes to qs characters
setUser(c, k, id, userToken, qs) ==
    IF Truthy(c.userID) THEN Ret(c, k, "throw:twice")
    ELSE setUserBody(c, k, id, userToken, qs)

\* setAnonymousUser()
setAnonymousUser(c, k) ==
    LET c1 == [c EXCEPT !.anonymous = "true", !.userID = AnonId]
    IN _setupConnection(_setUser(c1, [id |-> AnonId, qs |-> MaxQs]), k)

\* disconnect(): the user fields are deleted, the current connection is closed
disconnect(c, k) ==
    Ret([c EXCEPT !.user = NoUser, !._user = NoUser, !.anonymous = Undefined,
                  !.userID = Undefined, !.userToken = Undefined],
        IF c.wsConnection # 0 THEN [k EXCEPT ![c.wsConnection] = "disconnected"] ELSE k,
        "ok")

\* ---------------------------------------------------- request helpers
Statuses == {200, 201, 400, 500}      \* response.status
Methods == {"get", "post", "put", "patch", "delete"}

\* response.data: the parsed body; code 0 stands for a body without a code
NoBody == [code |-> 0, message |-> Undefined]
Bodies == {NoBody, [code |-> 4, message |-> "m"]}

\* a response of the server; NoResponse stands for an absent e.response
NoResponse == [status |-> 0, data |-> NoBody]
Responses == [status : Statuses, data : Bodies]

\* an Error object and the fields the helpers read or set on it
Err(message, code, status, response) ==
    [message |-> message, code |-> code, status |-> status, response |-> response]
NoErr == Err(<<>>, 0, 0, NoResponse)
NetworkError == Err(<<"Network Error">>, 0, 0, NoResponse)
CredentialsError == Err(<<"Both secret and user tokens are not set">>, 0, 0, NoResponse)

\* what an axios call settles to: it resolves with a response, or rejects
\* with an error that carries a response, or with one that carries none
Outcomes ==
    {[kind |-> "resolve", response |-> r, error |-> NoErr] : r \in Responses}
    \cup {[kind |-> "reject", response |-> NoResponse,
            error |-> Err(<<"Request failed with status code", r.status>>, 0, 0, r)] :
              r \in {q \in Responses : q.status >= 400}}
    \cup {[kind |-> "reject", response |-> NoResponse, error |-> NetworkError]}

Ok200 == [kind |-> "resolve", response |-> [status |-> 200, data |-> NoBody], error |-> NoErr]
Offline == [kind |-> "reject", response |-> NoResponse, error |-> NetworkError]

\* the outcome of a helper call: requests issued, returned data or thrown error
Returned(data) == [sent |-> 0, thrown |-> FALSE, data |-> data, err |-> NoErr]
Thrown(err) == [sent |-> 0, thrown |-> TRUE, data |-> NoBody, err |-> err]
NoHttp == [method |-> "none", sent |-> 0, thrown |-> FALSE, data |-> NoBody, err |-> NoErr]
Http(method, r) == [method |-> method, sent |-> r.sent, thrown |-> r.thrown,
                    data |-> r.data, err |-> r.err]

\* (response.status + '')[0]: the first character of the decimal numeral
RECURSIVE FirstDigit(_)
FirstDigit(n) == IF n < 10 THEN n ELSE FirstDigit(n \div 10)

\* errorFromResponse(response)
errorFromResponse(response) ==
    IF response.data.code # 0
    THEN Err(<<"StreamChat error code", response.data.code, response.data.message>>,
             response.data.code, response.status, response)
    ELSE Err(<<"StreamChat error HTTP code", response.status>>, 0, response.status, response)

\* a handleResponse that takes every status from 200 on for a success
handleResponseFrom200(response) ==
    IF response.status < 200
    THEN Thrown(errorFromResponse(response))
    ELSE Returned(response.data)

\* handleResponse(response)
handleResponse(response) ==
    IF FirstDigit(response.status) # 2
    THEN Thrown(errorFromResponse(response))
    ELSE Returned(response.data)

\* JWTServerToken(secret), of the module signing
JWTServerToken(secret) == "tok_server"

\* _addClientParams(): throws without credentials, else the Authorization token
_addClientParams(c) ==
    IF c.secret = Null /\ c.userToken = Null /\ c.anonymous = "false"
    THEN [thrown |-> TRUE, token |-> ""]
    ELSE [thrown |-> FALSE,
          token |-> IF c.anonymous = "false"
                    THEN (IF c.userToken # Null THEN c.userToken ELSE JWTServerToken(c.secret))
                    ELSE ""]

\* a catch block that returns the body of e.response
settleReturnsBody(out) ==
    LET tried == IF out.kind = "resolve" THEN handleResponse(out.response)
                 ELSE Thrown(out.error)
        caught == IF ~tried.thrown THEN tried
                  ELSE IF tried.err.response # NoResponse
                  THEN Returned(tried.err.response.data)
                  ELSE tried
    IN [caught EXCEPT !.sent = 1]

\* get, post, put, patch, delete (one body), once the request is issued: the
\* axios call settles to out, the try block and the catch block run
settle(out) ==
    LET tried == IF out.kind = "resolve" THEN handleResponse(out.response)
                 ELSE Thrown(out.error)
        caught == IF ~tried.thrown THEN tried
                  ELSE IF tried.err.response # NoResponse
                  THEN handleResponse(tried.err.response)
                  ELSE tried
    IN [caught EXCEPT !.sent = 1]

\* get, post, put, patch, delete (one body): _addClientParams throws inside
\* the try block before the request is issued, or the request is issued
request(c, out) ==
    IF _addClientParams(c).thrown THEN Thrown(CredentialsError)
    ELSE settle(out)

\* ------------------------------------------------ channel state cache
\* the live-location records the server sends
Locations == {[lat |-> 51, lon |-> 50, accuracy |-> 20, updated_at |-> 1],
              [lat |-> 55, lon |-> 55, accuracy |-> 20, updated_at |-> 2]}

\* the mappings of user ids without an entry: members, read markers (the id
\* of the last message read), live locations
NoMembers == [u \in UserIds |-> Null]
NoRead == [u \in UserIds |-> 0]
NoLocations == [u \in UserIds |-> NoLocation]

\* channel.state of a new Channel: the messages in chronological order (a
\* message is its id, and the ids follow the creation times), the members,
\* the read markers and the live locations by user id
EmptyState == [messages |-> <<>>, members |-> NoMembers, read |-> NoRead,
               live_locations |-> NoLocations]

\* the state of a channel the server sends in answer to a query or a watch
EmptySnapshot == [messages |-> {}, members |-> NoMembers, read |-> NoRead,
                  live_locations |-> NoLocations]

\* ChannelState.addMessageSorted: the message takes its place in the order
\* of creation; a message whose id the sequence holds is not added again
RECURSIVE addMessageSorted(_, _)
addMessageSorted(messages, message) ==
    IF messages = <<>> THEN <<message>>
    ELSE IF Head(messages) = message THEN messages
    ELSE IF Head(messages) > message THEN <<message>> \o messages
    ELSE <<Head(messages)>> \o addMessageSorted(Tail(messages), message)

\* ChannelState.addMessagesSorted: each message of a list in its turn
RECURSIVE addMessagesSorted(_, _)
addMessagesSorted(messages, new) ==
    IF new = {} THEN messages
    ELSE LET message == CHOOSE x \in new : \A y \in new : x <= y
         IN addMessagesSorted(addMessageSorted(messages, message), new \ {message})

\* the entries of a mapping, those of another laid over them
Over(old, new, none) == [u \in UserIds |-> IF new[u] # none THEN new[u] ELSE old[u]]

\* a channel that puts the messages of a snapshot after those it holds
_initializeStateAppending(s, snapshot) ==
    [messages |-> s.messages \o addMessagesSorted(<<>>, snapshot.messages),
     members |-> Over(s.members, snapshot.members, Null),
     read |-> Over(s.read, snapshot.read, 0),
     live_locations |-> snapshot.live_locations]

\* Channel._initializeState(state): the messages of the snapshot are added
\* in order, its members and read markers are laid over those of the cache,
\* its live locations replace those of the cache
_initializeState(s, snapshot) ==
    [messages |-> addMessagesSorted(s.messages, snapshot.messages),
     members |-> Over(s.members, snapshot.members, Null),
     read |-> Over(s.read, snapshot.read, 0),
     live_locations |-> snapshot.live_locations]

LocationTypes == {"location.sharing_started", "location.updated",
                  "location.sharing_stopped"}

\* a channel whose location.updated inserts the record of a user it does
\* not hold
liveLocationsUpsert(locations, event) ==
    IF event.type \notin LocationTypes \/ event.user = NoUser THEN locations
    ELSE IF event.type = "location.sharing_stopped"
    THEN [locations EXCEPT ![event.user.id] = NoLocation]
    ELSE [locations EXCEPT ![event.user.id] = event.location]

\* Channel._handleChannelEvent, the live locations: a start inserts the
\* record of the user, an update refreshes the record in place, a stop
\* removes it
liveLocations(locations, event) ==
    IF event.type \notin LocationTypes \/ event.user = NoUser THEN locations
    ELSE IF event.type = "location.sharing_started"
    THEN [locations EXCEPT ![event.user.id] = event.location]
    ELSE IF event.type = "location.updated"
    THEN (IF locations[event.user.id] # NoLocation
          THEN [locations EXCEPT ![event.user.id] = event.location]
          ELSE locations)
    ELSE [locations EXCEPT ![event.user.id] = NoLocation]

\* ChannelState.removeMessage: the message of that id leaves the sequence
removeMessage(messages, message) == SelectSeq(messages, LAMBDA m : m # message)

\* a channel that puts the message of an event at the end of its sequence
messagesAppending(messages, event) ==
    IF event.type = "message.new" THEN Append(messages, event.n)
    ELSE IF event.type = "message.updated" THEN Append(messages, event.message)
    ELSE IF event.type = "message.deleted" THEN removeMessage(messages, event.message)
    ELSE messages

\* Channel._handleChannelEvent, the messages: a new message is added in
\* order under the number of its event; an updated message takes the place
\* of the one with its id, or its place in the order when the sequence does
\* not hold it; a deleted message is removed
messagesAfter(messages, event) ==
    IF event.type = "message.new" THEN addMessageSorted(messages, event.n)
    ELSE IF event.type = "message.updated" THEN addMessageSorted(messages, event.message)
    ELSE IF event.type = "message.deleted" THEN removeMessage(messages, event.message)
    ELSE messages

\* Channel._handleChannelEvent(event), the cache: a message event and a
\* live-location event are applied
applyEvent(s, event) ==
    [s EXCEPT !.messages = messagesAfter(@, event),
              !.live_locations = liveLocations(@, event)]

\* Channel._handleChannelEvent(event): the cache is updated, then the
\* listeners of the channel are called and find the cache as it is then
_handleChannelEvent(s, event) ==
    LET after == applyEvent(s, event)
    IN [state |-> after, observed |-> after.live_locations]

\* Channel.clean(): the live locations whose sharing time is over go
clean(s, expired) ==
    [s EXCEPT !.live_locations = [u \in UserIds |-> IF u \in expired THEN NoLocation ELSE @[u]]]

\* the history of the sharing of a user on a channel: the last thing that
\* happened (a start, an update, a stop, the expiry) and the last of them
\* that was no update
NoSharing == [last |-> "none", since |-> "none"]
Stage(stage, type) ==
    [last |-> type, since |-> IF type = "location.updated" THEN stage.since ELSE type]

\* the caches of the session and their histories
Caches(log, state, seen, life) ==
    [log |-> log, state |-> state, observed |-> seen, lifecycle |-> life]

\* a dispatchEvent that hands the event to every channel of the table
forwardToAll(chans, event, caches) ==
    Caches([c \in Cids |-> IF c \in chans THEN Append(caches.log[c], event.n)
                           ELSE caches.log[c]],
           [c \in Cids |-> IF c \in chans
                           THEN _handleChannelEvent(caches.state[c], event).state
                           ELSE caches.state[c]],
           caches.observed, caches.lifecycle)

\* a dispatchEvent that hands the event to no channel
forwardNowhere(chans, event, caches) == caches

\* dispatchEvent, after _handleClientEvent returned: the channel the table
\* holds under the event's cid, when there is one, handles the event
forward(chans, event, caches) ==
    IF event.cid \in chans
    THEN LET h == _handleChannelEvent(caches.state[event.cid], event)
         IN Caches([caches.log EXCEPT ![event.cid] = Append(@, event.n)],
                   [caches.state EXCEPT ![event.cid] = h.state],
                   [caches.observed EXCEPT ![event.cid] = h.observed],
                   IF event.type \in LocationTypes /\ event.user # NoUser
                   THEN [caches.lifecycle EXCEPT ![event.cid][event.user.id] = Stage(@, event.type)]
                   ELSE caches.lifecycle)
    ELSE caches

\* no query under way, none made
NoQuery == [pc |-> "idle", kind |-> "none", promise |-> 0, recovery |-> FALSE,
            res |-> "none", err |-> 0, sent |-> 0, channels |-> {}, inited |-> {},
            snapshot |-> EmptySnapshot]

\* no run of recoverState under way, none made
NoRecovery == [pc |-> "idle", cids |-> {}, queried |-> FALSE, emitted |-> 0,
               res |-> "none"]

Init ==
    /\ client \in {NewClient(s) : s \in {Null, "secret"}}
    /\ conns = [i \in 1..MaxConns |-> "none"]
    /\ guest = "idle"
    /\ listeners = [s \in Scopes |-> <<>>]
    /\ regOrder = <<>>
    /\ activeChannels = {}
    /\ chanLog = [c \in Cids |-> <<>>]
    /\ expected = [c \in Cids |-> <<>>]
    /\ pc = "idle"
    /\ cur = NoEvent
    /\ pending = <<>>
    /\ invoked = <<>>
    /\ threw = FALSE
    /\ startListeners = [s \in Scopes |-> <<>>]
    /\ startReg = <<>>
    /\ reentered = 0
    /\ lastCall = Call("new", "", "ok", 0)
    /\ wsPromises = [i \in 1..MaxConns |-> "none"]
    /\ handleOf = <<>>
    /\ requested = {}
    /\ query = NoQuery
    /\ rec = NoRecovery
    /\ lastHttp = NoHttp
    /\ cleans = 0
    /\ channelState = [c \in Cids |-> EmptyState]
    /\ observed = [c \in Cids |-> NoLocations]
    /\ lifecycle = [c \in Cids |-> [u \in UserIds |-> NoSharing]]

\* a method of the session runs to completion between two events
Apply(r, op, arg) ==
    /\ client' = r.client
    /\ conns' = r.conns
    /\ wsPromises' = [i \in DOMAIN conns |->
                        IF conns[i] = "none" /\ r.conns[i] # "none"
                        THEN "pending" ELSE wsPromises[i]]
    /\ lastCall' = Call(op, arg, r.res, NumConns(r.conns) - NumConns(conns))

CanCreate == NumConns(conns) < MaxConns
CanSetup == CanCreate /\ client.UUID < MaxSetups

SetUser(id, userToken, qs) ==
    /\ pc = "idle" /\ CanSetup
    /\ Apply(setUser(client, conns, id, userToken, qs), "setUser", id)
    /\ UNCHANGED <<guest, registryVars, channelVars, dispatchVars, asyncVars, lastHttp>>

SetAnonymousUser ==
    /\ pc = "idle" /\ CanSetup
    /\ Apply(setAnonymousUser(client, conns), "setAnonymousUser", "")
    /\ UNCHANGED <<guest, registryVars, channelVars, dispatchVars, asyncVars, lastHttp>>

Connect ==
    /\ pc = "idle" /\ CanCreate
    /\ Apply(connect(client, conns), "connect", "")
    /\ UNCHANGED <<guest, registryVars, channelVars, dispatchVars, asyncVars, lastHttp>>

Disconnect ==
    /\ pc = "idle"
    /\ Apply(disconnect(client, conns), "disconnect", "")
    /\ UNCHANGED <<guest, registryVars, channelVars, dispatchVars, asyncVars, lastHttp>>

\* setGuestUser(user), up to the await of the POST /guest request
SetGuestUserStart ==
    /\ pc = "idle" /\ guest = "idle"
    /\ client' = [client EXCEPT !.anonymous = "true"]
    /\ guest' = "posting"
    /\ lastCall' = Call("setGuestUser", "", "await", 0)
    /\ UNCHANGED <<conns, wsPromises, registryVars, channelVars, dispatchVars,
                   asyncVars, lastHttp>>

\* setGuestUser(user): the request failed
SetGuestUserFail ==
    /\ pc = "idle" /\ guest = "posting"
    /\ client' = [client EXCEPT !.anonymous = "false"]
    /\ guest' = "idle"
    /\ lastCall' = Call("setGuestUser", "", "throw:http", 0)
    /\ UNCHANGED <<conns, wsPromises, registryVars, channelVars, dispatchVars,
                   asyncVars, lastHttp>>

\* setGuestUser(user): the server answered with the guest user and its token
SetGuestUserDone(id) ==
    /\ pc = "idle" /\ guest = "posting" /\ CanSetup
    /\ Apply(setUser([client EXCEPT !.anonymous = "false"], conns, id, createToken(id), MaxQs),
             "setGuestUser", id)
    /\ guest' = "idle"
    /\ UNCHANGED <<registryVars, channelVars, dispatchVars, asyncVars, lastHttp>>

\* StableWSConnection: the socket of connection i opened, at the first
\* attempt or at a later one; its promise resolves
WsOpen(i) ==
    /\ pc = "idle"
    /\ conns[i] \in {"connecting", "retrying"}
    /\ conns' = [conns EXCEPT ![i] = "connected"]
    /\ wsPromises' = [wsPromises EXCEPT ![i] = "resolved"]
    /\ lastCall' = Call("open", "", "ok", i)
    /\ UNCHANGED <<client, guest, registryVars, channelVars, dispatchVars, asyncVars, lastHttp>>

NextSession ==
    \/ \E id \in UserIds \cup {Undefined}, t \in Tokens \cup {Null}, qs \in QsSizes :
          SetUser(id, t, qs)
    \/ SetAnonymousUser
    \/ Connect
    \/ Disconnect
    \/ SetGuestUserStart
    \/ SetGuestUserFail
    \/ \E id \in UserIds : SetGuestUserDone(id)
    \/ \E i \in 1..MaxConns : WsOpen(i)

SpecSession == Init /\ [][NextSession]_vars

\* ---------------------------------------------------------- registry
\* isValidEventType(key), of the module events
isValidEventType(key) == key \in Scopes \cup EventTypes

\* Array.prototype.filter(value => value !== callback)
Without(list, callback) == SelectSeq(list, LAMBDA value : value # callback)

\* on(key, callback): push the callback on the list of its scope
on(ls, key, callback) == [ls EXCEPT ![key] = Append(@, callback)]

RECURSIVE DropFirst(_, _)
DropFirst(list, callback) ==
    IF list = <<>> THEN <<>>
    ELSE IF Head(list) = callback THEN Tail(list)
    ELSE <<Head(list)>> \o DropFirst(Tail(list), callback)

\* an off() that removes one registration of the callback, the oldest
offFirstOnly(ls, key, callback) == [ls EXCEPT ![key] = DropFirst(@, callback)]

\* off(key, callback): filter the callback out of the list of its scope
off(ls, key, callback) == [ls EXCEPT ![key] = Without(@, callback)]

\* on() and off() are called between events, or by a listener while it runs
InListener == pc = "listeners" /\ invoked # <<>> /\ reentered < MaxReentrant
Reenter == reentered' = IF pc = "idle" THEN 0 ELSE reentered + 1

On(key, callback) ==
    /\ pc = "idle" \/ InListener
    /\ Len(regOrder) < MaxListeners
    /\ IF isValidEventType(key)
       THEN /\ listeners' = on(listeners, key, callback)
            /\ regOrder' = Append(regOrder, <<key, callback>>)
       ELSE UNCHANGED registryVars
    /\ Reenter
    /\ UNCHANGED <<sessionVars, lastCall, channelVars, pc, cur, pending, invoked, threw,
                   startListeners, startReg, asyncVars, lastHttp>>

Off(key, callback) ==
    /\ pc = "idle" \/ InListener
    /\ IF isValidEventType(key)
       THEN /\ listeners' = off(listeners, key, callback)
            /\ regOrder' = SelectSeq(regOrder, LAMBDA r : r # <<key, callback>>)
       ELSE UNCHANGED registryVars
    /\ Reenter
    /\ UNCHANGED <<sessionVars, lastCall, channelVars, pc, cur, pending, invoked, threw,
                   startListeners, startReg, asyncVars, lastHttp>>

\* ---------------------------------------------------------- channels
HasColon(str) == str \in {"mess:aging", "a:b"}

_isUsingServerAuth(c) == c.secret # Null

\* new Channel(client, type, id): the Channel objects built for one cid are
\* numbered in the order of their creation; the object n of a cid is an
\* object other than the object m # n of that cid and than every object of
\* another cid
NewChannel(handles, cid) == IF cid \in DOMAIN handles THEN handles[cid] + 1 ELSE 1

\* the outcome of channel(): the keys of the table, the object under each
\* key, the exception thrown or "ok", the object returned
Handle(chans, handles, res, handle) ==
    [chans |-> chans, handles |-> handles, res |-> res, handle |-> handle]

\* a channel() that builds a new Channel object on every call
channelAlwaysNew(c, chans, handles, channelType, channelID) ==
    LET cid == <<channelType, channelID>> IN
    IF ~Truthy(c.userID) /\ ~_isUsingServerAuth(c) THEN Handle(chans, handles, "throw:nouser", 0)
    ELSE IF HasColon(channelType) THEN Handle(chans, handles, "throw:type", 0)
    ELSE IF HasColon(channelID) THEN Handle(chans, handles, "throw:id", 0)
    ELSE LET new == NewChannel(handles, cid)
         IN Handle(chans \cup {cid},
                   [x \in DOMAIN handles \cup {cid} |-> IF x = cid THEN new ELSE handles[x]],
                   "ok", new)

\* a channel() that does not look for ':' in the channel id
channelAnyId(c, chans, handles, channelType, channelID) ==
    LET cid == <<channelType, channelID>> IN
    IF ~Truthy(c.userID) /\ ~_isUsingServerAuth(c) THEN Handle(chans, handles, "throw:nouser", 0)
    ELSE IF HasColon(channelType) THEN Handle(chans, handles, "throw:type", 0)
    ELSE IF cid \in chans THEN Handle(chans, handles, "ok", handles[cid])
    ELSE LET new == NewChannel(handles, cid)
         IN Handle(chans \cup {cid}, handles @@ (cid :> new), "ok", new)

\* channel(channelType, channelID), for a channelID that is a non-empty
\* string: the table of channels after the call and the object returned
channel(c, chans, handles, channelType, channelID) ==
    LET cid == <<channelType, channelID>> IN
    IF ~Truthy(c.userID) /\ ~_isUsingServerAuth(c) THEN Handle(chans, handles, "throw:nouser", 0)
    ELSE IF HasColon(channelType) THEN Handle(chans, handles, "throw:type", 0)
    ELSE IF HasColon(channelID) THEN Handle(chans, handles, "throw:id", 0)
    ELSE IF cid \in chans THEN Handle(chans, handles, "ok", handles[cid])
    ELSE LET new == NewChannel(handles, cid)
         IN Handle(chans \cup {cid}, handles @@ (cid :> new), "ok", new)

\* lastCall holds whether the object returned is new or was in the table,
\* the outcome and the object returned
Channel(channelType, channelID) ==
    /\ pc = "idle"
    /\ LET r == channel(client, activeChannels, handleOf, channelType, channelID)
       IN /\ activeChannels' = r.chans
          /\ handleOf' = r.handles
          /\ requested' = IF r.res = "ok"
                          THEN requested \cup {<<channelType, channelID>>}
                          ELSE requested
          /\ lastCall' = Call("channel",
                              IF r.res # "ok" THEN ""
                              ELSE IF <<channelType, channelID>> \in activeChannels
                              THEN "cached" ELSE "new",
                              r.res, r.handle)
    /\ UNCHANGED <<sessionVars, registryVars, chanLog, expected, cacheVars,
                   dispatchVars, asyncVars, lastHttp>>

\* --------------------------------------------------------- dispatch
\* the events that arrived for a channel of the session are numbered in
\* arrival order
Arrived == Cardinality(UNION {{expected[c][i] : i \in DOMAIN expected[c]} : c \in Cids})

Events ==
    {Ev("message.new", c) : c \in Cids}
    \cup {[Ev("health.check", NoCid) EXCEPT !.me = UserOf("u1")]}

\* ClientState.updateUser(user): the user is stored under its id
updateUser(state, user) ==
    IF user = NoUser THEN state ELSE [state EXCEPT ![user.id] = user]

\* a _handleClientEvent that stores the user of a health check in the user
\* cache only
clientStateKeepsUser(c, event) ==
    LET c1 == IF event.type \in {"user.presence.changed", "user.updated"}
              THEN [c EXCEPT !.state = updateUser(@, event.user)]
              ELSE c
        c2 == IF event.type = "health.check" /\ event.me # NoUser
              THEN [c1 EXCEPT !.state = updateUser(@, event.me)]
              ELSE c1
    IN IF event.type = "notification.message_new"
       THEN [c2 EXCEPT !.configs[event.channel.type] = event.channel.config]
       ELSE c2

\* _handleClientEvent, first part: the changes to the client's own state
clientState(c, event) ==
    LET c1 == IF event.type \in {"user.presence.changed", "user.updated"}
              THEN [c EXCEPT !.state = updateUser(@, event.user)]
              ELSE c
        c2 == IF event.type = "health.check" /\ event.me # NoUser
              THEN [c1 EXCEPT !.user = event.me, !.state = updateUser(@, event.me)]
              ELSE c1
    IN IF event.type = "notification.message_new"
       THEN [c2 EXCEPT !.configs[event.channel.type] = event.channel.config]
       ELSE c2

ListOf(ls, key) == IF key \in DOMAIN ls THEN ls[key] ELSE <<>>

\* a gathering that takes the listeners of the event's type first
gatherTypeFirst(ls, type) == ListOf(ls, type) \o ListOf(ls, "all")

\* _handleClientEvent, second part: the listeners gathered for an event
gather(ls, type) == ListOf(ls, "all") \o ListOf(ls, type)

\* the keys every object has from Object.prototype: client.listeners is an
\* object literal, and client.listeners['constructor'] is the function Object
Inherited == {"constructor"}

\* _handleClientEvent, second part: client.listeners[event.type] is found
\* and is no list of listeners; listeners.push(...it) throws a TypeError
throwsTypeError(ls, type) == type \in Inherited /\ type \notin DOMAIN ls

\* the histories of a dispatch end with it
EndDispatch ==
    /\ pc' = "idle"
    /\ cur' = NoEvent
    /\ pending' = <<>>
    /\ invoked' = <<>>
    /\ startListeners' = [s \in Scopes |-> <<>>]
    /\ startReg' = <<>>
    /\ reentered' = 0

\* handleEvent / dispatchEvent: an event arrives on an open connection;
\* _handleClientEvent updates the client state and gathers the listeners
Dispatch(event) ==
    /\ pc = "idle"
    /\ client' = clientState(client, event)
    /\ IF throwsTypeError(listeners, event.type)
       THEN /\ EndDispatch
            /\ threw' = TRUE
            /\ lastCall' = Call("dispatchEvent", event.type, "throw:TypeError", 0)
       ELSE /\ cur' = Numbered(event, Arrived + 1)
            /\ pending' = gather(listeners, event.type)
            /\ pc' = "listeners"
            /\ invoked' = <<>>
            /\ threw' = FALSE
            /\ startListeners' = listeners
            /\ startReg' = regOrder
            /\ reentered' = 0
            /\ lastCall' = Call("dispatchEvent", "", "ok", 0)
    /\ expected' = IF event.cid \in activeChannels
                   THEN [expected EXCEPT ![event.cid] = Append(@, Arrived + 1)]
                   ELSE expected
    /\ UNCHANGED <<conns, wsPromises, guest, registryVars, activeChannels,
                   handleOf, requested, chanLog, cacheVars, query, cleans, lastHttp>>

DispatchStart(event) ==
    /\ event.cid \in activeChannels => Arrived < MaxEvents
    /\ \E i \in DOMAIN conns : conns[i] \in {"connected", "recovering"}
    /\ rec.pc # "emit"
    /\ Dispatch(event)
    /\ UNCHANGED rec

\* recoverState ends with the dispatchEvent call it makes: it returns when
\* the call returns and rejects when a listener throws
endRecovery(r, ok) ==
    IF r.pc = "emitting"
    THEN [r EXCEPT !.pc = "idle", !.res = IF ok THEN "ok" ELSE "throw:listener"]
    ELSE r

\* the history of the query of a recoverState run ends with the run
endQuery(r, q) == IF r.pc = "emitting" THEN NoQuery ELSE q

\* _handleClientEvent: the next gathered listener is called; an exception
\* it throws leaves _handleClientEvent and dispatchEvent
CallListener(throws) ==
    /\ pc = "listeners"
    /\ pending # <<>>
    /\ IF throws
       THEN /\ EndDispatch
            /\ threw' = TRUE
       ELSE /\ invoked' = Append(invoked, Head(pending))
            /\ pending' = Tail(pending)
            /\ UNCHANGED <<pc, cur, threw, startListeners, startReg, reentered>>
    /\ rec' = IF throws THEN endRecovery(rec, FALSE) ELSE rec
    /\ query' = IF throws THEN endQuery(rec, query) ELSE query
    /\ UNCHANGED <<sessionVars, lastCall, registryVars, channelVars, cleans, lastHttp>>

\* dispatchEvent, after _handleClientEvent returned: the channel of the
\* event's cid, when there is one, handles the event
ForwardToChannel ==
    /\ pc = "listeners"
    /\ pending = <<>>
    /\ EndDispatch
    /\ LET r == forward(activeChannels, cur,
                        Caches(chanLog, channelState, observed, lifecycle))
       IN /\ chanLog' = r.log
          /\ channelState' = r.state
          /\ observed' = r.observed
          /\ lifecycle' = r.lifecycle
    /\ rec' = endRecovery(rec, TRUE)
    /\ query' = endQuery(rec, query)
    /\ UNCHANGED <<sessionVars, lastCall, registryVars, activeChannels, handleOf,
                   requested, expected, threw, cleans, lastHttp>>

NextDispatch ==
    \/ \E key \in Scopes \cup {"bogus"}, cb \in Callbacks : On(key, cb)
    \/ \E key \in Scopes \cup {"bogus"}, cb \in Callbacks : Off(key, cb)
    \/ \E t \in ChannelTypes, id \in ChannelIds : Channel(t, id)
    \/ \E e \in Events : DispatchStart(e)
    \/ \E b \in BOOLEAN : CallListener(b)
    \/ ForwardToChannel

\* the session after new StreamChat(key), setUser({id: 'u1'}, token) and the
\* opening of its socket
InitDispatch ==
    LET r == setUser(NewClient(Null), [i \in 1..MaxConns |-> "none"], "u1", "tok_u1", MaxQs)
    IN /\ client = r.client
       /\ conns = [r.conns EXCEPT ![1] = "connected"]
       /\ guest = "idle"
       /\ listeners = [s \in Scopes |-> <<>>]
       /\ regOrder = <<>>
       /\ activeChannels = {}
       /\ chanLog = [c \in Cids |-> <<>>]
       /\ expected = [c \in Cids |-> <<>>]
       /\ pc = "idle"
       /\ cur = NoEvent
       /\ pending = <<>>
       /\ invoked = <<>>
       /\ threw = FALSE
       /\ startListeners = [s \in Scopes |-> <<>>]
       /\ startReg = <<>>
       /\ reentered = 0
       /\ lastCall = Call("open", "", "ok", 1)
       /\ wsPromises = [i \in 1..MaxConns |-> IF i = 1 THEN "resolved" ELSE "none"]
       /\ handleOf = <<>>
       /\ requested = {}
       /\ query = NoQuery
       /\ rec = NoRecovery
       /\ lastHttp = NoHttp
       /\ cleans = 0
       /\ channelState = [c \in Cids |-> EmptyState]
       /\ observed = [c \in Cids |-> NoLocations]
       /\ lifecycle = [c \in Cids |-> [u \in UserIds |-> NoSharing]]

SpecDispatch == InitDispatch /\ [][NextDispatch]_vars

\* the registry and the listeners of a session that creates no channel
NextListeners ==
    \/ \E key \in Scopes \cup {"bogus"}, cb \in Callbacks : On(key, cb)
    \/ \E key \in Scopes \cup {"bogus"}, cb \in Callbacks : Off(key, cb)
    \/ \E e \in Events : DispatchStart(e)
    \/ \E b \in BOOLEAN : CallListener(b)
    \/ ForwardToChannel

SpecListeners == InitDispatch /\ [][NextListeners]_vars

\* ----------------------------------------------------------- queries
Kinds == {"queryChannels", "queryUsers", "search"}

\* a manager that gives up at a hard failure of any attempt
WsFailAnyAttempt(i) ==
    /\ pc = "idle"
    /\ conns[i] \in {"connecting", "retrying", "reconnecting"}
    /\ conns' = [conns EXCEPT ![i] = "failed"]
    /\ wsPromises' = [wsPromises EXCEPT ![i] = "rejected"]
    /\ lastCall' = Call("fail", "", "ok", i)
    /\ UNCHANGED <<client, guest, registryVars, channelVars, dispatchVars, asyncVars, lastHttp>>

\* StableWSConnection: the first attempt of connection i failed hard (a
\* malformed handshake response, an authentication failure), its promise
\* rejects
WsFail(i) ==
    /\ pc = "idle"
    /\ conns[i] = "connecting"
    /\ conns' = [conns EXCEPT ![i] = "failed"]
    /\ wsPromises' = [wsPromises EXCEPT ![i] = "rejected"]
    /\ lastCall' = Call("fail", "", "ok", i)
    /\ UNCHANGED <<client, guest, registryVars, channelVars, dispatchVars, asyncVars, lastHttp>>

\* a query after its await of the connect promise: this.get(...) runs up to
\* its axios call
afterWait(q, c) ==
    IF _addClientParams(c).thrown
    THEN [q EXCEPT !.pc = "idle", !.res = "throw:credentials"]
    ELSE [q EXCEPT !.pc = "get", !.sent = 1]

\* queryChannels, queryUsers, search up to their first suspension: the value
\* of this.wsPromise is read and awaited
beginQuery(c, promises, kind, recovery) ==
    LET q == [NoQuery EXCEPT !.kind = kind, !.recovery = recovery,
                             !.promise = c.wsPromise]
    IN IF c.wsPromise = 0 THEN afterWait(q, c)
       ELSE IF promises[c.wsPromise] = "resolved" THEN afterWait(q, c)
       ELSE IF promises[c.wsPromise] = "rejected"
       THEN [q EXCEPT !.res = "throw:connect", !.err = c.wsPromise]
       ELSE [q EXCEPT !.pc = "ws"]

\* the helper call of a query that ended before a request was issued
httpOf(q, h) ==
    IF q.res = "throw:credentials" THEN Http("get", Thrown(CredentialsError)) ELSE h

\* queryChannels, the loop over data.channels: channel() and then
\* _initializeState for each channel state, up to the first exception
RECURSIVE channelAll(_, _, _, _, _)
channelAll(c, chans, handles, cids, inited) ==
    IF cids = {}
    THEN [chans |-> chans, handles |-> handles, res |-> "ok", inited |-> inited]
    ELSE LET cid == CHOOSE x \in cids : TRUE
             r == channel(c, chans, handles, cid[1], cid[2])
         IN IF r.res # "ok"
            THEN [chans |-> chans, handles |-> handles, res |-> r.res, inited |-> inited]
            ELSE channelAll(c, r.chans, r.handles, cids \ {cid}, inited \cup {cid})

\* a recoverState that does not await the queryChannels call
dontAwaitQuery(r, q) ==
    IF r.pc # "query" \/ ~q.recovery THEN r
    ELSE [r EXCEPT !.pc = "emit", !.queried = (q.pc = "idle" /\ q.res = "ok")]

\* a recoverState that goes on to its dispatchEvent call whatever became of
\* the query
awaitQueryAnyway(r, q) ==
    IF r.pc # "query" \/ ~q.recovery \/ q.pc # "idle" THEN r
    ELSE [r EXCEPT !.pc = "emit", !.queried = (q.res = "ok")]

\* recoverState at the await of its queryChannels call: it goes on to the
\* dispatchEvent call when the query returned and ends when the query threw
awaitQuery(r, q) ==
    IF r.pc # "query" \/ ~q.recovery \/ q.pc # "idle" THEN r
    ELSE IF q.res = "ok" THEN [r EXCEPT !.pc = "emit", !.queried = TRUE]
    ELSE [r EXCEPT !.pc = "idle", !.res = q.res]

QueryStart(kind) ==
    /\ pc = "idle" /\ query.pc = "idle" /\ rec.pc = "idle"
    /\ query' = beginQuery(client, wsPromises, kind, FALSE)
    /\ lastHttp' = httpOf(query', lastHttp)
    /\ UNCHANGED <<sessionVars, lastCall, registryVars, channelVars, dispatchVars,
                   rec, cleans>>

\* the connect promise a query awaits settled: the query goes on
QueryWs ==
    /\ pc = "idle" /\ query.pc = "ws"
    /\ wsPromises[query.promise] \in {"resolved", "rejected"}
    /\ query' = IF wsPromises[query.promise] = "resolved"
                THEN afterWait(query, client)
                ELSE [query EXCEPT !.pc = "idle", !.res = "throw:connect",
                                   !.err = query.promise]
    /\ lastHttp' = httpOf(query', lastHttp)
    /\ rec' = awaitQuery(rec, query')
    /\ UNCHANGED <<sessionVars, lastCall, registryVars, channelVars, dispatchVars, cleans>>

Min(a, b) == IF a <= b THEN a ELSE b

RECURSIVE KSubsets(_, _)
KSubsets(S, k) ==
    IF k = 0 THEN {{}}
    ELSE UNION {{T \cup {x} : T \in KSubsets(S \ {x}, k - 1)} : x \in S}

\* the i-th channel a session creates
ChannelNo(i) == IF i = 1 THEN <<"messaging", "a">>
                ELSE IF i = 2 THEN <<"messaging", "b">>
                ELSE <<"messaging", "c" \o ToString(i)>>

\* the channels whose last message may be the oldest of the session
Oldest == {ChannelNo(i) : i \in {1, 2, RecoveryLimit + MaxExtra}}

\* the channels the server returns: for the recovery query (filter
\* {cid: {$in: cids}}, sort {last_message_at: -1}, limit 30) the cids of the
\* filter but for the oldest ones beyond the limit; for another query, any
\* channels
Answers(q, r) ==
    IF q.kind # "queryChannels" THEN {{}}
    ELSE IF q.recovery
    THEN {r.cids \ o : o \in KSubsets(r.cids \cap Oldest,
                                      Cardinality(r.cids)
                                        - Min(Cardinality(r.cids), RecoveryLimit))}
    ELSE SUBSET Cids

\* the request of a query settles: get() returns or throws, queryChannels
\* registers and initializes the channels returned
QueryResponseWith(out, channels, snapshot) ==
    /\ pc = "idle" /\ query.pc = "get"
    /\ channels \in Answers(query, rec)
    /\ LET h == settle(out)
           r == IF h.thrown \/ query.kind # "queryChannels"
                THEN [chans |-> activeChannels, handles |-> handleOf,
                      res |-> IF h.thrown THEN "throw:http" ELSE "ok", inited |-> {}]
                ELSE channelAll(client, activeChannels, handleOf, channels, {})
       IN /\ lastHttp' = Http("get", h)
          /\ activeChannels' = r.chans
          /\ handleOf' = r.handles
          /\ requested' = requested \cup r.inited
          /\ channelState' = [c \in Cids |->
                                IF c \in r.inited
                                THEN _initializeState(channelState[c], snapshot)
                                ELSE channelState[c]]
          /\ query' = [query EXCEPT !.pc = "idle", !.res = r.res,
                                    !.channels = IF h.thrown THEN {} ELSE channels,
                                    !.inited = r.inited,
                                    !.snapshot = IF r.inited \cap Cids = {} THEN EmptySnapshot
                                                 ELSE snapshot]
    /\ rec' = awaitQuery(rec, query')
    /\ UNCHANGED <<sessionVars, lastCall, registryVars, chanLog, expected, observed,
                   lifecycle, dispatchVars, cleans>>

\* the same with a server that holds nothing of the channels it returns
QueryResponse(out, channels) == QueryResponseWith(out, channels, EmptySnapshot)

\* a call of get, post, put, patch or delete outside the queries
Request(method, out) ==
    /\ pc = "idle"
    /\ lastHttp' = Http(method, request(client, out))
    /\ UNCHANGED <<sessionVars, lastCall, registryVars, channelVars, dispatchVars, asyncVars>>

\* ---------------------------------------------------------- messages
\* the location of a message's location attachment
Attachments == {[lat |-> 44, lon |-> 22, accuracy |-> 0],
                [lat |-> 91, lon |-> 22, accuracy |-> 0],
                [lat |-> 0, lon |-> 181, accuracy |-> 0],
                [lat |-> 0, lon |-> 0, accuracy |-> 2000]}

\* the server's check of a location: latitude, longitude, accuracy
InRange(location) ==
    /\ location.lat \in -90..90
    /\ location.lon \in -180..180
    /\ location.accuracy \in 0..1999

\* the responses of the server the axios call can settle to
Carrying(statuses) ==
    {out \in Outcomes : out.kind = "resolve" /\ out.response.status \in statuses}
    \cup {out \in Outcomes : out.kind = "reject" /\ out.error.response.status \in statuses}

\* the server's answers to POST /channels/{type}/{id}/message: 400 for a
\* location out of range, else the message created, or a server error; or
\* the request fails without an answer
MessageAnswers(location) ==
    (IF InRange(location) THEN Carrying({201, 500}) ELSE Carrying({400})) \cup {Offline}

\* Channel.sendMessage(message): the message is posted; the message of the
\* response, whose id is that of the message.new event to come, is added to
\* the cache; an error of the post is thrown on
sendMessage(c, s, id, out) ==
    LET h == request(c, out)
    IN [http |-> h,
        state |-> IF h.thrown THEN s
                  ELSE [s EXCEPT !.messages = addMessageSorted(@, id)]]

\* the newest message the session knows of, 0 when it knows of none
Newest ==
    LET known == UNION {Range(channelState[c].messages) \cup Range(expected[c]) : c \in Cids}
    IN IF known = {} THEN 0 ELSE CHOOSE x \in known : \A y \in known : y <= x

SendMessage(cid, location, out) ==
    /\ pc = "idle"
    /\ cid \in activeChannels \cap Cids
    /\ Newest < MaxEvents
    /\ out \in MessageAnswers(location)
    /\ LET r == sendMessage(client, channelState[cid], Newest + 1, out)
       IN /\ lastHttp' = Http("post", r.http)
          /\ channelState' = [channelState EXCEPT ![cid] = r.state]
          /\ lastCall' = Call("sendMessage",
                              IF InRange(location) THEN "in range" ELSE "out of range",
                              IF r.http.thrown THEN "throw:http" ELSE "ok", 0)
    /\ UNCHANGED <<sessionVars, registryVars, activeChannels, handleOf, requested,
                   chanLog, expected, observed, lifecycle, dispatchVars, asyncVars>>

\* ---------------------------------------------------------- recovery
Recovered == Ev("connection.recovered", NoCid)

\* recoverState, called by the StableWSConnection after a reconnect, up to
\* its await: without active channels it returns at once
RecoverStart ==
    /\ pc = "idle" /\ rec.pc = "idle" /\ query.pc = "idle"
    /\ \E i \in DOMAIN conns : conns[i] = "connected"
    /\ IF activeChannels = {}
       THEN /\ rec' = [NoRecovery EXCEPT !.res = "ok"]
            /\ UNCHANGED <<query, lastHttp>>
       ELSE /\ query' = beginQuery(client, wsPromises, "queryChannels", TRUE)
            /\ lastHttp' = httpOf(query', lastHttp)
            /\ rec' = awaitQuery([NoRecovery EXCEPT !.pc = "query",
                                                    !.cids = activeChannels], query')
    /\ UNCHANGED <<sessionVars, lastCall, registryVars, channelVars, dispatchVars, cleans>>

\* StableWSConnection: an attempt of connection i failed for a reason of the
\* transport or the network; another attempt is scheduled after a delay,
\* the promise of a connection that never opened stays pending
WsErrorGivesUp(i) ==
    /\ pc = "idle"
    /\ conns[i] \in {"connecting", "retrying", "reconnecting"}
    /\ conns' = [conns EXCEPT ![i] = IF @ = "connecting" THEN "retrying" ELSE "failed"]
    /\ wsPromises' = [wsPromises EXCEPT ![i] = IF conns'[i] = "failed" THEN "rejected" ELSE @]
    /\ lastCall' = Call("error", "", "ok", i)
    /\ UNCHANGED <<client, guest, registryVars, channelVars, dispatchVars, asyncVars, lastHttp>>

WsError(i) ==
    /\ pc = "idle"
    /\ conns[i] \in {"connecting", "retrying", "reconnecting"}
    /\ conns' = [conns EXCEPT ![i] = IF @ = "connecting" THEN "retrying" ELSE @]
    /\ lastCall' = Call("error", "", "ok", i)
    /\ UNCHANGED <<client, wsPromises, guest, registryVars, channelVars, dispatchVars,
                   asyncVars, lastHttp>>

\* StableWSConnection: the open socket of connection i closed abnormally or
\* its health check failed; a reconnect is scheduled
WsClose(i) ==
    /\ pc = "idle"
    /\ conns[i] = "connected"
    /\ conns' = [conns EXCEPT ![i] = "reconnecting"]
    /\ lastCall' = Call("close", "", "ok", i)
    /\ UNCHANGED <<client, wsPromises, guest, registryVars, channelVars, dispatchVars,
                   asyncVars, lastHttp>>

\* StableWSConnection: a reconnect of connection i succeeded; the manager
\* calls recoverCallback, that is recoverState, up to its await, and is not
\* healthy again before the callback has returned
WsReopen(i) ==
    /\ pc = "idle"
    /\ conns[i] = "reconnecting"
    /\ rec.pc = "idle" /\ (activeChannels # {} => query.pc = "idle")
    /\ \A j \in DOMAIN conns : conns[j] # "recovering"
    /\ conns' = [conns EXCEPT ![i] = "recovering"]
    /\ lastCall' = Call("reopen", "", "ok", i)
    /\ IF activeChannels = {}
       THEN /\ rec' = [NoRecovery EXCEPT !.res = "ok"]
            /\ UNCHANGED <<query, lastHttp>>
       ELSE /\ query' = beginQuery(client, wsPromises, "queryChannels", TRUE)
            /\ lastHttp' = httpOf(query', lastHttp)
            /\ rec' = awaitQuery([NoRecovery EXCEPT !.pc = "query",
                                                    !.cids = activeChannels], query')
    /\ UNCHANGED <<client, wsPromises, guest, registryVars, channelVars, dispatchVars, cleans>>

\* StableWSConnection: the recoverCallback of connection i settled; when it
\* returned the connection is healthy again, when it threw the manager goes
\* back to its reconnect loop
WsRecovered(i) ==
    /\ pc = "idle"
    /\ conns[i] = "recovering"
    /\ rec.pc = "idle"
    /\ conns' = [conns EXCEPT ![i] = IF rec.res = "ok" THEN "connected" ELSE "reconnecting"]
    /\ lastCall' = Call("recovered", rec.res, "ok", i)
    /\ UNCHANGED <<client, wsPromises, guest, registryVars, channelVars, dispatchVars,
                   asyncVars, lastHttp>>

\* recoverState after its await: dispatchEvent({type: 'connection.recovered'})
RecoverEmit ==
    /\ rec.pc = "emit"
    /\ Dispatch(Recovered)
    /\ rec' = [rec EXCEPT !.pc = "emitting", !.emitted = @ + 1]

\* ------------------------------------------------------------ timers
\* the callback of the interval _startCleaning set: clean() on each channel
CleanTick(expired) ==
    /\ pc = "idle"
    /\ client.cleaningIntervalRef = "scheduled"
    /\ activeChannels # {}
    /\ cleans < MaxTicks
    /\ cleans' = cleans + 1
    /\ \A x \in expired : x[1] \in activeChannels /\ channelState[x[1]].live_locations[x[2]] # NoLocation
    /\ channelState' = [c \in Cids |->
                          IF c \in activeChannels
                          THEN clean(channelState[c], {u \in UserIds : <<c, u>> \in expired})
                          ELSE channelState[c]]
    /\ lifecycle' = [c \in Cids |-> [u \in UserIds |->
                          IF <<c, u>> \in expired THEN Stage(lifecycle[c][u], "expired")
                          ELSE lifecycle[c][u]]]
    /\ UNCHANGED <<sessionVars, lastCall, registryVars, activeChannels, handleOf,
                   requested, chanLog, expected, observed, dispatchVars,
                   query, rec, lastHttp>>

\* --------------------------------------------------- specifications
\* the table of channels of a session: channel() and queryChannels
NextChannels ==
    \/ SetUser("u1", "tok_u1", MaxQs)
    \/ Disconnect
    \/ \E i \in 1..MaxConns : WsOpen(i)
    \/ \E t \in ChannelTypes, id \in ChannelIds : Channel(t, id)
    \/ QueryStart("queryChannels")
    \/ QueryWs
    \/ \E channels \in SUBSET Cids : QueryResponse(Ok200, channels)

SpecChannels == Init /\ [][NextChannels]_vars

\* the request helpers, called directly and by queryChannels
NextHttp ==
    \/ SetUser("u1", "tok_u1", MaxQs)
    \/ Disconnect
    \/ \E i \in 1..MaxConns : WsOpen(i)
    \/ \E method \in Methods, out \in Outcomes : Request(method, out)
    \/ QueryStart("queryChannels")
    \/ QueryWs
    \/ \E out \in Outcomes : QueryResponse(out, {})

SpecHttp == Init /\ [][NextHttp]_vars

\* the queries and the connect promise of the session
NextQueries ==
    \/ SetUser("u1", "tok_u1", MaxQs)
    \/ Connect
    \/ Disconnect
    \/ \E i \in 1..MaxConns : WsOpen(i)
    \/ \E i \in 1..MaxConns : WsFail(i)
    \/ \E kind \in Kinds : QueryStart(kind)
    \/ QueryWs
    \/ \E out \in {Ok200, Offline} : QueryResponse(out, {})

SpecQueries == Init /\ [][NextQueries]_vars

\* the session of InitDispatch after channel() was called for n channels
InitRecovery ==
    LET r == setUser(NewClient(Null), [i \in 1..MaxConns |-> "none"], "u1", "tok_u1", MaxQs)
    IN /\ client = r.client
       /\ conns = [r.conns EXCEPT ![1] = "connected"]
       /\ guest = "idle"
       /\ listeners = [s \in Scopes |-> <<>>]
       /\ regOrder = <<>>
       /\ \E n \in {0, 1, RecoveryLimit + MaxExtra} :
             /\ activeChannels = {ChannelNo(i) : i \in 1..n}
             /\ handleOf = [cid \in {ChannelNo(i) : i \in 1..n} |-> 1]
             /\ requested = {ChannelNo(i) : i \in 1..n}
       /\ chanLog = [c \in Cids |-> <<>>]
       /\ expected = [c \in Cids |-> <<>>]
       /\ pc = "idle"
       /\ cur = NoEvent
       /\ pending = <<>>
       /\ invoked = <<>>
       /\ threw = FALSE
       /\ startListeners = [s \in Scopes |-> <<>>]
       /\ startReg = <<>>
       /\ reentered = 0
       /\ lastCall = Call("open", "", "ok", 1)
       /\ wsPromises = [i \in 1..MaxConns |-> IF i = 1 THEN "resolved" ELSE "none"]
       /\ query = NoQuery
       /\ rec = NoRecovery
       /\ lastHttp = NoHttp
       /\ cleans = 0
       /\ channelState = [c \in Cids |-> EmptyState]
       /\ observed = [c \in Cids |-> NoLocations]
       /\ lifecycle = [c \in Cids |-> [u \in UserIds |-> NoSharing]]

\* recoverState, the live events and the listeners of the session
NextRecovery ==
    \/ \E cb \in {"f", "g"} : On("all", cb)
    \/ DispatchStart(Ev("message.new", ChannelNo(1)))
    \/ \E b \in BOOLEAN : CallListener(b)
    \/ ForwardToChannel
    \/ RecoverStart
    \/ \E out \in {Ok200, Offline}, channels \in Answers(query, rec) :
          QueryResponse(out, channels)
    \/ RecoverEmit

SpecRecovery == InitRecovery /\ [][NextRecovery]_vars

\* the messages a session sends and receives on its channels
NextMessages ==
    \/ \E id \in {"a", "b"} : Channel("messaging", id)
    \/ \E cid \in Cids, location \in Attachments, out \in Outcomes :
          SendMessage(cid, location, out)
    \/ \E cid \in Cids : DispatchStart(Ev("message.new", cid))
    \/ On("all", "f")
    \/ CallListener(FALSE)
    \/ ForwardToChannel

SpecMessages == InitDispatch /\ [][NextMessages]_vars

\* the live-location events of the channels: type, channel and user, and for
\* a start or an update the location reported
LocationEvents ==
    {[Ev(t, c) EXCEPT !.user = UserOf(u), !.location = l] :
        t \in {"location.sharing_started", "location.updated"},
        c \in Cids, u \in UserIds, l \in Locations}
    \cup {[Ev("location.sharing_stopped", c) EXCEPT !.user = UserOf(u)] :
            c \in Cids, u \in UserIds}

\* the live locations of the channels of a session: the events of the
\* server and the cleaning interval
NextLocations ==
    \/ \E id \in {"a", "b"} : Channel("messaging", id)
    \/ \E e \in LocationEvents : DispatchStart(e)
    \/ ForwardToChannel
    \/ \E expired \in SUBSET (Cids \X UserIds) : CleanTick(expired)

SpecLocations == InitDispatch /\ [][NextLocations]_vars

\* the states of a channel the server answers a query with: none, and two
\* with messages, members, read markers and live locations
Snapshots ==
    {EmptySnapshot,
     [messages |-> {1, 2}, members |-> [NoMembers EXCEPT !["u1"] = "member"],
      read |-> [NoRead EXCEPT !["u1"] = 1],
      live_locations |-> [NoLocations EXCEPT !["u1"] = CHOOSE l \in Locations : l.updated_at = 1]],
     [messages |-> {2, 3}, members |-> [u \in UserIds |-> "member"],
      read |-> [NoRead EXCEPT !["u2"] = 2], live_locations |-> NoLocations]}

\* the queries of a session and the events of its channels: the caches take
\* the snapshots of the query responses and the new messages
NextSnapshots ==
    \/ QueryStart("queryChannels")
    \/ \E out \in Carrying({200, 500}), channels \in SUBSET Cids, snapshot \in Snapshots :
          QueryResponseWith(out, channels, snapshot)
    \/ \E cid \in Cids : DispatchStart(Ev("message.new", cid))
    \/ ForwardToChannel

SpecSnapshots == InitDispatch /\ [][NextSnapshots]_vars

\* the connection of a session over failures of the transport, and the
\* queries that wait for it
NextReconnect ==
    \/ SetUser("u1", "tok_u1", MaxQs)
    \/ Disconnect
    \/ \E i \in 1..MaxConns : WsOpen(i)
    \/ \E i \in 1..MaxConns : WsFail(i)
    \/ \E i \in 1..MaxConns : WsError(i)
    \/ \E i \in 1..MaxConns : WsClose(i)
    \/ \E i \in 1..MaxConns : WsReopen(i)
    \/ \E i \in 1..MaxConns : WsRecovered(i)
    \/ QueryStart("queryChannels")
    \/ QueryWs
    \/ \E out \in {Ok200, Offline} : QueryResponse(out, {})

SpecReconnect == Init /\ [][NextReconnect]_vars

\* the same with a transport that accepts a connection in the end: an
\* attempt that stays possible succeeds, and a query whose promise settled
\* goes on
FairReconnect ==
    /\ SpecReconnect
    /\ \A i \in 1..MaxConns :
          WF_vars(WsOpen(i)) /\ WF_vars(WsReopen(i)) /\ WF_vars(WsRecovered(i))
    /\ WF_vars(QueryWs)

\* events of types the library does not know, with and without cid
UnknownEvents ==
    {Ev(t, c) : t \in {"custom.new"} \cup Inherited, c \in {<<"messaging", "a">>, NoCid}}

\* the dispatch of events of known and unknown types to the listeners and
\* the channels of a session
NextRouting ==
    \/ On("all", "f")
    \/ On("message.new", "h")
    \/ \E id \in {"a", "b"} : Channel("messaging", id)
    \/ \E e \in UnknownEvents \cup {Ev("message.new", c) : c \in Cids} : DispatchStart(e)
    \/ CallListener(FALSE)
    \/ ForwardToChannel

SpecRouting == InitDispatch /\ [][NextRouting]_vars

\* the events that carry a user, the session's own user or a channel with
\* its configuration, and two that carry none
ClientEvents ==
    {[Ev(t, NoCid) EXCEPT !.user = u] :
        t \in {"user.updated", "user.presence.changed"},
        u \in {UserOf("u2"), [UserOf("u1") EXCEPT !.qs = MaxQs + 1]}}
    \cup {[Ev("health.check", NoCid) EXCEPT !.me = me] :
            me \in {NoUser, [UserOf("u1") EXCEPT !.qs = MaxQs + 1]}}
    \cup {[Ev("notification.message_new", <<"messaging", "a">>)
              EXCEPT !.channel = [type |-> "messaging", config |-> "commands"]],
          Ev("message.new", <<"messaging", "a">>),
          Ev("connection.recovered", NoCid)}

\* the state of the client over the events of a session
NextClientState ==
    \/ On("all", "f")
    \/ Channel("messaging", "a")
    \/ \E e \in ClientEvents : DispatchStart(e)
    \/ CallListener(FALSE)
    \/ ForwardToChannel

SpecClientState == InitDispatch /\ [][NextClientState]_vars

\* the identity of a session over its life: session starts, reconnects,
\* recovery runs, events and queries
NextIdentity ==
    \/ SetUser("u1", "tok_u1", MaxQs)
    \/ Disconnect
    \/ \E i \in 1..MaxConns : WsOpen(i)
    \/ \E i \in 1..MaxConns : WsClose(i)
    \/ \E i \in 1..MaxConns : WsReopen(i)
    \/ \E i \in 1..MaxConns : WsRecovered(i)
    \/ Channel("messaging", "a")
    \/ DispatchStart([Ev("health.check", NoCid) EXCEPT !.me = UserOf("u1")])
    \/ ForwardToChannel
    \/ QueryStart("queryChannels")
    \/ QueryWs
    \/ \E channels \in Answers(query, rec) : QueryResponse(Ok200, channels)
    \/ RecoverEmit

SpecIdentity == Init /\ [][NextIdentity]_vars

\* the connection of a session with a channel over closes, reconnects and
\* the recovery runs that follow them, and over disconnect()
NextResync ==
    \/ SetUser("u1", "tok_u1", MaxQs)
    \/ Disconnect
    \/ Channel("messaging", "a")
    \/ \E i \in 1..MaxConns : WsOpen(i)
    \/ \E i \in 1..MaxConns : WsError(i)
    \/ \E i \in 1..MaxConns : WsClose(i)
    \/ \E i \in 1..MaxConns : WsReopen(i)
    \/ \E i \in 1..MaxConns : WsRecovered(i)
    \/ \E out \in {Ok200, Offline}, channels \in Answers(query, rec) :
          QueryResponse(out, channels)
    \/ RecoverEmit
    \/ ForwardToChannel

SpecResync == Init /\ [][NextResync]_vars

\* cancellation: a session whose connect() is called again, closed by
\* disconnect() while its connections wait, retry, reconnect or recover
NextCancel ==
    \/ SetUser("u1", "tok_u1", MaxQs)
    \/ Connect
    \/ Disconnect
    \/ Channel("messaging", "a")
    \/ \E i \in 1..MaxConns : WsOpen(i)
    \/ \E i \in 1..MaxConns : WsError(i)
    \/ \E i \in 1..MaxConns : WsClose(i)
    \/ \E i \in 1..MaxConns : WsReopen(i)
    \/ \E i \in 1..MaxConns : WsRecovered(i)
    \/ \E out \in {Ok200, Offline}, channels \in Answers(query, rec) :
          QueryResponse(out, channels)
    \/ RecoverEmit
    \/ ForwardToChannel

SpecCancel == Init /\ [][NextCancel]_vars

\* the message events of the channels: a new message, and the update and
\* the deletion of a message by its id
MessageEvents ==
    {Ev("message.new", c) : c \in {<<"messaging", "a">>}}
    \cup {[Ev(t, c) EXCEPT !.message = m] :
            t \in {"message.updated", "message.deleted"}, c \in {<<"messaging", "a">>},
            m \in 1..MaxEvents}

\* the message sequence of a cache: snapshots of query responses and
\* message events in every order
NextHistory ==
    \/ QueryStart("queryChannels")
    \/ \E snapshot \in Snapshots : QueryResponseWith(Ok200, {<<"messaging", "a">>}, snapshot)
    \/ \E e \in MessageEvents : DispatchStart(e)
    \/ ForwardToChannel

SpecHistory == InitDispatch /\ [][NextHistory]_vars

\* the events that reach the client over the sessions it starts and ends
NextLate ==
    \/ SetUser("u1", "tok_u1", MaxQs)
    \/ Connect
    \/ Disconnect
    \/ \E i \in 1..MaxConns : WsOpen(i)
    \/ \E e \in {[Ev("health.check", NoCid) EXCEPT !.me = UserOf("u1")],
                 [Ev("user.updated", NoCid) EXCEPT !.user = UserOf("u2")]} : DispatchStart(e)
    \/ ForwardToChannel

SpecLate == Init /\ [][NextLate]_vars

\* the cleaning interval over the life of a session
NextTimers ==
    \/ SetUser("u1", "tok_u1", MaxQs)
    \/ Disconnect
    \/ \E i \in 1..MaxConns : WsOpen(i)
    \/ \E t \in ChannelTypes, id \in ChannelIds : Channel(t, id)
    \/ \E expired \in SUBSET (Cids \X UserIds) : CleanTick(expired)

SpecTimers == Init /\ [][NextTimers]_vars

Next ==
    \/ NextSession
    \/ NextDispatch
    \/ \E i \in 1..MaxConns : WsFail(i)
    \/ \E kind \in Kinds : QueryStart(kind)
    \/ QueryWs
    \/ \E out \in Outcomes, channels \in Answers(query, rec) : QueryResponse(out, channels)
    \/ \E method \in Methods, out \in Outcomes : Request(method, out)
    \/ RecoverStart
    \/ RecoverEmit
    \/ \E cid \in Cids, location \in Attachments, out \in Outcomes :
          SendMessage(cid, location, out)
    \/ \E expired \in SUBSET (Cids \X UserIds) : CleanTick(expired)
    \/ \E i \in 1..MaxConns : WsError(i)
    \/ \E i \in 1..MaxConns : WsClose(i)
    \/ \E i \in 1..MaxConns : WsReopen(i)
    \/ \E i \in 1..MaxConns : WsRecovered(i)

Spec == Init /\ [][Next]_vars

\* ------------------------------------------------------------ claims
Live(k) == {i \in DOMAIN k : k[i] \in {"connecting", "connected"}}

\* C1: connect() on a session whose connection is connecting or connected
\* returns the outstanding promise and creates no second connection.
C1_ConnectIdempotent ==
    [][(Connect /\ client.wsConnection \in Live(conns))
         => /\ (client').wsPromise = client.wsPromise
            /\ NumConns(conns') = NumConns(conns)]_vars

\* C2: a setUser call on a session that has a current user throws at once
\* and leaves the connection object, the connect promise, the user, the
\* token and the client ID (every field of the client) and the connections
\* as they were.
C2_SecondSetUserThrows ==
    [][(Truthy(client.userID) /\ (lastCall').op = "setUser") =>
         \A t \in Tokens \cup {Null}, qs \in QsSizes :
            SetUser((lastCall').arg, t, qs)
              => /\ client' = client
                 /\ conns' = conns
                 /\ (lastCall').res = "throw:twice"]_vars

\* C2 witness: setUser has just thrown on a session whose connection is open
C2_Witness ==
    /\ lastCall.op = "setUser" /\ lastCall.res = "throw:twice"
    /\ client.wsConnection \in Live(conns)
    /\ client.wsPromise = client.wsConnection
    /\ client.userID \in UserIds

\* C3: at most one connection created by the session is live (created and
\* not disconnected) in every reachable state.
C3_AtMostOneLive == Cardinality(Live(conns)) <= 1

Count(seq, x) == Cardinality({i \in DOMAIN seq : seq[i] = x})
IsPrefix(p, q) == Len(p) <= Len(q) /\ \A i \in DOMAIN p : p[i] = q[i]
Callbacks_(seq) == [i \in DOMAIN seq |-> seq[i][2]]

\* the listeners a dispatch step has called when it ends the dispatch: those
\* that returned and, when the step is a call that throws, the one that threw
Called == IF pending = <<>> THEN invoked ELSE Append(invoked, Head(pending))
EndsDispatch == pc = "listeners" /\ pc' = "idle"

\* C4: every dispatch calls all the listeners gathered for its event, also
\* when one of them throws; so does the dispatch of the next event.
C4_ListenerErrorIsolated ==
    [][EndsDispatch => Called = gather(startListeners, cur.type)]_vars

\* C5: a dispatch whose event carries the cid of a Channel State Cache hands
\* the event to that cache, also when a listener of the session throws.
C5_EventReachesCache ==
    [][(EndsDispatch /\ cur.cid \in activeChannels)
         => chanLog'[cur.cid] = Append(chanLog[cur.cid], cur.n)]_vars

\* C6: when a listener of the session has been called for an event whose cid
\* has a Channel State Cache, that cache has already received the event.
C6_CacheBeforeListeners ==
    (pc = "listeners" /\ invoked # <<>> /\ cur.cid \in activeChannels)
        => cur.n \in Range(chanLog[cur.cid])

\* the registrations for the catch-all scope or for a type, in on() order
RegSeq(reg, type) == Callbacks_(SelectSeq(reg, LAMBDA r : r[1] \in {"all", type}))
\* the registrations of one scope, in on() order
ByScope(reg, key) == Callbacks_(SelectSeq(reg, LAMBDA r : r[1] = key))

\* C7 as claimed: the listeners called for an event are called in the order
\* of their on() calls, and once all gathered listeners are called they are
\* exactly the registrations for the catch-all scope and the event's type.
C7_RegistrationOrder ==
    pc = "listeners" =>
        /\ IsPrefix(invoked, RegSeq(startReg, cur.type))
        /\ (pending = <<>> => invoked = RegSeq(startReg, cur.type))

\* C7 as amended: the listeners called for an event, followed by those still
\* to be called, are the catch-all registrations in their on() order and then
\* the registrations for the event's type in their on() order.
C7_ScopeThenRegistrationOrder ==
    pc = "listeners" =>
        invoked \o pending = ByScope(startReg, "all") \o ByScope(startReg, cur.type)

\* C7 witness: a type listener registered before a catch-all listener, both
\* called for a message.new event, the catch-all one first
C7_Witness ==
    /\ pc = "listeners" /\ pending = <<>> /\ cur.type = "message.new"
    /\ startReg = << <<"message.new", "f">>, <<"all", "g">> >>
    /\ invoked = <<"g", "f">>

\* C8: a dispatch calls every callback once per registration it has for the
\* catch-all scope and for the event's type.
C8_OncePerRegistration ==
    [][EndsDispatch =>
         \A cb \in Callbacks :
            Count(Called, cb) = Count(startListeners["all"], cb)
                                + Count(ListOf(startListeners, cur.type), cb)]_vars

Registered(ls, type) == Range(ListOf(ls, "all")) \cup Range(ListOf(ls, type))

\* C9 as claimed: a callback that off() removed from its scope is not called
\* afterwards for that scope: every listener called is registered, when it is
\* called, for the catch-all scope or for the event's type.
C9_NeverCalledAfterOff ==
    [][(\E b \in BOOLEAN : CallListener(b))
         => Head(pending) \in Registered(listeners, cur.type)]_vars

RECURSIVE Strip(_, _)
Strip(seq, x) ==
    IF seq = <<>> THEN <<>>
    ELSE IF Head(seq) = x THEN Strip(Tail(seq), x)
    ELSE <<Head(seq)>> \o Strip(Tail(seq), x)

\* C9 as amended: off(scope, cb) leaves no registration of cb in the scope,
\* keeps the other registrations of the scope in their order and leaves the
\* other scopes alone; a dispatch that starts afterwards gathers each callback
\* once per registration it then has for the catch-all scope and the event's
\* type, so it does not call cb for that scope (a dispatch in progress still
\* calls the listeners it gathered).
C9_OffRemovesByReference ==
    [][/\ (pc' = pc /\ invoked' = invoked) =>
            \A key \in Scopes, cb \in Callbacks :
               Off(key, cb) =>
                 /\ cb \notin Range(listeners'[key])
                 /\ listeners'[key] = Strip(listeners[key], cb)
                 /\ \A other \in Scopes \ {key} : listeners'[other] = listeners[other]
       /\ (pc = "idle" /\ pc' = "listeners") =>
            \A e \in Events :
               DispatchStart(e) =>
                 \A cb \in Callbacks :
                    Count(pending', cb) = Count(listeners["all"], cb)
                                          + Count(ListOf(listeners, e.type), cb)]_vars

\* C9 witness: a listener of the running dispatch called off() for a callback
\* of a scope with two other registrations, and the callback is still to be
\* called by this dispatch
C9_Witness ==
    /\ pc = "listeners" /\ reentered = 1
    /\ \E key \in Scopes, cb \in Callbacks :
         /\ Len(listeners[key]) = 2
         /\ Len(startListeners[key]) = 3
         /\ listeners[key] = Strip(startListeners[key], cb)
         /\ listeners[key][1] # listeners[key][2]
         /\ cb \in Range(pending)

\* C10: each Channel State Cache has received exactly the events that arrived
\* with its cid, in arrival order.
C10_CacheGetsItsEventsInOrder ==
    pc = "idle" => \A c \in Cids : chanLog[c] = expected[c]

\* C11: while the listeners are called for connection.recovered, the query
\* of that recoverState run has returned and every channel the server
\* returned to it has been registered and initialized by it.
C11_RecoveredAfterResync ==
    (pc = "listeners" /\ cur.type = "connection.recovered") =>
        /\ rec.pc = "emitting" /\ rec.queried
        /\ query.recovery /\ query.pc = "idle" /\ query.res = "ok"
        /\ query.inited = query.channels
        /\ query.channels \subseteq activeChannels

\* C11 witness: a listener has been called for the connection.recovered event
\* of a run whose query initialized as many channels as its limit allows
C11_Witness ==
    /\ pc = "listeners" /\ cur.type = "connection.recovered" /\ invoked # <<>>
    /\ Cardinality(query.inited) = RecoveryLimit
    /\ rec.emitted = 1

\* C12: a run of recoverState that completed without error has dispatched
\* connection.recovered exactly once, also a run without active channels.
C12_RecoveredOncePerRun ==
    (rec.pc = "idle" /\ rec.res = "ok") => rec.emitted = 1

\* C13: while connection.recovered is dispatched, every channel that was in
\* the table of active channels when the run began has been initialized from
\* the server by that run, however many channels there are.
C13_AllActiveResynced ==
    (pc = "listeners" /\ cur.type = "connection.recovered") =>
        rec.cids \subseteq query.inited

\* the connect promise of the session is pending
ConnectPending(c, promises) == c.wsPromise # 0 /\ promises[c.wsPromise] = "pending"

\* C14: a query issues its request only when the connect promise of the
\* session is not pending, and a query whose awaited promise rejected ends
\* with that rejection and without a request.
C14_QueriesWaitForConnect ==
    [][/\ (query.pc # "get" /\ (query').pc = "get")
            => ~ConnectPending(client, wsPromises)
       /\ (query.pc = "ws" /\ wsPromises[query.promise] = "rejected" /\ (query').pc = "idle")
            => /\ (query').res = "throw:connect"
               /\ (query').err = query.promise
               /\ (query').sent = 0]_vars

\* C15: a channel() call that returns gives the object the table holds for
\* the cid, which is the first object built for that cid, and builds an
\* object only for a cid the table does not hold; the table has one entry
\* for each cid that channel() returned an object for, by a direct call or
\* in queryChannels, and for no other.
C15_OneHandlePerCid ==
    /\ DOMAIN handleOf = activeChannels
    /\ activeChannels = requested
    /\ \A cid \in activeChannels : handleOf[cid] = 1
    /\ \A t \in ChannelTypes, id \in ChannelIds :
          LET r1 == channel(client, activeChannels, handleOf, t, id)
              r2 == channel(client, r1.chans, r1.handles, t, id)
          IN r1.res = "ok" =>
               /\ r1.chans = activeChannels \cup {<<t, id>>}
               /\ r1.handle = r1.handles[<<t, id>>]
               /\ \A cid \in activeChannels : r1.handles[cid] = handleOf[cid]
               /\ r2.res = "ok" /\ r2.handle = r1.handle
               /\ r2.chans = r1.chans /\ r2.handles = r1.handles

\* C15 witness: channel() has returned the object of a cid the table held,
\* and the table holds two channels, one of them returned by queryChannels
C15_Witness ==
    /\ lastCall.op = "channel" /\ lastCall.arg = "cached" /\ lastCall.n = 1
    /\ Cardinality(activeChannels) = 2
    /\ query.res = "ok" /\ query.inited # {}

\* C16: channel() throws when the type or the id holds a ':' and when the
\* session has neither a user nor a secret; it then builds no object and
\* leaves the table as it was.
C16_ChannelThrows ==
    /\ \A t \in ChannelTypes, id \in ChannelIds :
          (HasColon(t) \/ HasColon(id)
             \/ (~Truthy(client.userID) /\ client.secret = Null))
            => LET r == channel(client, activeChannels, handleOf, t, id)
               IN /\ r.res \in {"throw:nouser", "throw:type", "throw:id"}
                  /\ r.handle = 0
                  /\ r.chans = activeChannels /\ r.handles = handleOf
    /\ (lastCall.op = "channel" /\ lastCall.res # "ok") => lastCall.n = 0

\* C16 witness: channel() has thrown for an id with a ':' on a session that
\* holds a channel
C16_Witness ==
    /\ lastCall.op = "channel" /\ lastCall.res = "throw:id"
    /\ activeChannels # {}

\* the configuration errors of setUser(user, userToken)
ConfigError(c, id, userToken, qs) ==
    \/ ~Truthy(id)
    \/ userToken = Null /\ c.secret = Null
    \/ userToken # Null /\ UserFromToken(userToken) # id
    \/ qs > MaxQs

C18_NoCleanAfterDisconnect ==
    [][lastCall.op = "disconnect" => cleans' = cleans]_vars

\* C19: after disconnect() the connection of the session is disconnected,
\* the user, the user id, the token and the client ID are cleared, and a
\* setUser call with valid arguments opens one new connection.
C19_DisconnectEndsSession ==
    lastCall.op = "disconnect" =>
        /\ client.wsConnection # 0 => conns[client.wsConnection] = "disconnected"
        /\ client.user = NoUser /\ client._user = NoUser
        /\ client.userID = Undefined /\ client.userToken = Undefined
        /\ client.clientID = NewClient(Null).clientID
        /\ CanSetup =>
              LET r == setUser(client, conns, "u1", "tok_u1", MaxQs)
              IN r.res = "ok" /\ NumConns(r.conns) = NumConns(conns) + 1

\* the response an axios outcome carries, NoResponse when it carries none
ResponseOf(out) == IF out.kind = "resolve" THEN out.response ELSE out.error.response

\* the outcome of a helper call that issued its request
Settled(h, out) ==
    LET response == ResponseOf(out) IN
    IF response = NoResponse THEN h.thrown /\ h.err = out.error
    ELSE IF response.status \in 200..299 THEN ~h.thrown /\ h.data = response.data
    ELSE /\ h.thrown
         /\ h.err.status = response.status
         /\ h.err.response = response
         /\ response.data.code # 0 =>
               /\ h.err.code = response.data.code
               /\ h.err.message = <<"StreamChat error code", response.data.code,
                                    response.data.message>>

C21_BadLocationRejected ==
    /\ \A cid \in activeChannels \cap Cids, location \in Attachments :
          ~InRange(location) =>
             \A out \in MessageAnswers(location) \ {Offline} :
                LET r == sendMessage(client, channelState[cid], Newest + 1, out)
                IN /\ r.http.thrown /\ r.http.sent = 1
                   /\ r.http.err.status = 400
                   /\ r.http.err.response = ResponseOf(out)
                   /\ r.state = channelState[cid]
    /\ (lastCall.op = "sendMessage" /\ lastCall.arg = "out of range")
          => lastHttp.thrown /\ lastHttp.err.status \in {0, 400}

\* C21 witness: a message with a location out of range has been refused with
\* status 400 on a channel whose cache holds a message sent and a message
\* received
C21_Witness ==
    /\ lastCall.op = "sendMessage" /\ lastCall.arg = "out of range"
    /\ lastHttp.method = "post" /\ lastHttp.thrown /\ lastHttp.err.status = 400
    /\ \E cid \in activeChannels : Len(channelState[cid].messages) = 2
\* the step of dispatchEvent that hands a live-location event to the channel
\* of its cid
AppliesLocation ==
    /\ EndsDispatch /\ pending = <<>>
    /\ cur.type \in LocationTypes /\ cur.cid \in activeChannels

\* the live location of the user of the event under way on its channel
LocationIn(states) == states[cur.cid].live_locations[cur.user.id]

Shared(states, c, u) == states[c].live_locations[u]

QueryReturns ==
    query.pc = "get" /\ query'.pc = "idle" /\ query'.res = "ok"
    /\ query'.kind = "queryChannels"

\* C24: a snapshot applied to a cache that was just made from the same
\* snapshot changes nothing: messages, members, read markers and live
\* locations are those of the first application. So for every cache a
\* session reaches and every snapshot, and for the caches a queryChannels
\* call has initialized, were the same response to come again.
C24_SnapshotIdempotent ==
    /\ [](\A c \in Cids, snapshot \in Snapshots :
            LET once == _initializeState(channelState[c], snapshot)
            IN _initializeState(once, snapshot) = once)
    /\ [][QueryReturns =>
            \A c \in query'.inited \cap Cids :
               _initializeState(channelState'[c], query'.snapshot) = channelState'[c]]_vars

\* C24 witness: a channel that had received the messages 1 and 2 as events
\* has taken the snapshot with the messages 2 and 3 from a query response:
\* its cache holds 1, 2, 3 and the members and read markers of the snapshot
C24_Witness ==
    \E c \in activeChannels :
        /\ query.pc = "idle" /\ query.res = "ok" /\ c \in query.inited
        /\ query.snapshot.messages = {2, 3}
        /\ chanLog[c] = <<1, 2>>
        /\ channelState[c].messages = <<1, 2, 3>>
        /\ channelState[c].members = query.snapshot.members
\* the connections with an attempt scheduled or under way
Attempting == {"connecting", "retrying", "reconnecting", "recovering"}

\* C25: a failure of the transport or the network never ends a connection:
\* after an error or an abnormal close the connection is retrying or
\* reconnecting, its promise is not rejected, and it leaves that state only
\* by opening (and then recovering) or by disconnect(); there is no bound on
\* the attempts. So,
\* with a transport that accepts a connection in the end, a connection with
\* an attempt scheduled becomes connected (unless it is disconnected or its
\* first attempt fails hard) and a query that waits for the connect promise
\* goes on.
C25_ReconnectForever ==
    /\ [][\A i \in 1..MaxConns :
            /\ (lastCall'.op \in {"error", "close"} /\ lastCall'.n = i /\ lastCall' # lastCall)
                  => conns'[i] \in {"retrying", "reconnecting"}
            /\ conns[i] \in {"retrying", "reconnecting", "recovering"}
                  => /\ conns'[i] \in {conns[i], "disconnected"} \cup
                           (IF conns[i] = "retrying" THEN {"connected"}
                            ELSE IF conns[i] = "reconnecting" THEN {"recovering"}
                            ELSE {"connected", "reconnecting"})
                     /\ wsPromises'[i] = IF conns[i] = "retrying" /\ conns'[i] = "connected"
                                         THEN "resolved" ELSE wsPromises[i]]_vars
    /\ \A i \in 1..MaxConns :
          /\ (conns[i] \in Attempting) ~> (conns[i] \in {"connected", "disconnected", "failed"})
          /\ (conns[i] \in {"retrying", "reconnecting", "recovering"})
                ~> (conns[i] \in {"connected", "disconnected"})
    /\ (query.pc = "ws") ~> (query.pc # "ws" \/ conns[query.promise] = "disconnected")

\* C25 witness: the connection of the session closed abnormally and is open
\* again after a reconnect, recoverState has returned, and a query that
\* awaited the promise of this connection has returned
C25_Witness ==
    \E i \in 1..MaxConns :
        /\ lastCall = Call("recovered", "ok", "ok", i)
        /\ conns[i] = "connected" /\ wsPromises[i] = "resolved"
        /\ query.promise = i /\ query.pc = "idle" /\ query.res = "ok"
        /\ rec.res = "ok"
\* C26: the promise of a connection is rejected only by the hard failure of
\* its first attempt, while it is pending; a promise that resolved stays
\* resolved whatever fails later, the later failures are retried and throw
\* nothing at a caller: a query ends with the rejection of the connect
\* promise only when the promise it awaited is a rejected one.
C26_RejectsOnlyFirstAttempt ==
    [][/\ \A i \in 1..MaxConns :
            /\ (wsPromises'[i] = "rejected" /\ wsPromises[i] # "rejected")
                  => /\ conns[i] = "connecting" /\ wsPromises[i] = "pending"
                     /\ lastCall' = Call("fail", "", "ok", i)
            /\ wsPromises[i] = "resolved" => wsPromises'[i] = "resolved"
            /\ (wsPromises[i] = "resolved" /\ lastCall' # lastCall)
                  => lastCall'.op # "fail" \/ lastCall'.n # i
       /\ (query'.res = "throw:connect" /\ query' # query)
            => wsPromises'[query'.promise] = "rejected" /\ query'.err = query'.promise]_vars

\* C26 witness: in one run the first attempt of a connection failed hard
\* and its promise is rejected, and the connection of a later session opened,
\* closed abnormally and met an error while reconnecting: its promise is
\* resolved and the query that awaited it returned
C26_Witness ==
    \E i, j \in 1..MaxConns :
        /\ wsPromises[i] = "rejected"
        /\ conns[j] = "reconnecting" /\ wsPromises[j] = "resolved"
        /\ lastCall = Call("error", "", "ok", j)
        /\ query.promise = j /\ query.pc = "idle" /\ query.res = "ok"
\* C27 as stated: the dispatch of an event of an unknown type does not
\* fail; every catch-all listener is gathered for it, no other, the client
\* is left as it is, and the event is forwarded to the cache of its cid as
\* an event of a known type is.
C27_UnknownDispatchedAsIs ==
    [][/\ (lastCall' # lastCall /\ lastCall'.op = "dispatchEvent") => lastCall'.res = "ok"
       /\ (pc = "idle" /\ pc' = "listeners" /\ cur'.type \notin EventTypes)
            => pending' = ListOf(listeners, "all") /\ client' = client /\ ~threw'
       /\ (EndsDispatch /\ pending = <<>> /\ cur.type \notin EventTypes)
            => IF cur.cid \in activeChannels
               THEN chanLog' = [chanLog EXCEPT ![cur.cid] = Append(@, cur.n)]
               ELSE chanLog' = chanLog]_vars

\* the same for the unknown types that are no key of Object.prototype
C27_OwnKeysOnly ==
    [][/\ (lastCall' # lastCall /\ lastCall'.op = "dispatchEvent" /\ lastCall'.res # "ok")
            => lastCall'.arg \in Inherited
       /\ (pc = "idle" /\ pc' = "listeners" /\ cur'.type \notin EventTypes)
            => pending' = ListOf(listeners, "all") /\ client' = client /\ ~threw'
       /\ (EndsDispatch /\ pending = <<>> /\ cur.type \notin EventTypes)
            => IF cur.cid \in activeChannels
               THEN chanLog' = [chanLog EXCEPT ![cur.cid] = Append(@, cur.n)]
               ELSE chanLog' = chanLog]_vars
\* the steps of a dispatch: its start, the calls of the listeners, the
\* forwarding to the channel
DispatchStep ==
    \/ pc = "listeners"
    \/ pc = "idle" /\ pc' = "listeners"
    \/ lastCall' # lastCall /\ lastCall'.op = "dispatchEvent"

\* the caches a step hands an event to
Forwarded == {c \in Cids : chanLog'[c] # chanLog[c]}

\* C28: a dispatch hands its event to one cache at most, that of the
\* channel the table holds under the event's cid, and changes no other
\* cache; an event without cid, or whose cid is not in the table, is handed
\* to none; no step of a dispatch adds a channel to the table.
C28_AtMostOneCache ==
    [][DispatchStep =>
          /\ activeChannels' = activeChannels /\ handleOf' = handleOf
          /\ Forwarded \subseteq {cur.cid} \cap activeChannels
          /\ \A c \in Forwarded : chanLog'[c] = Append(chanLog[c], cur.n)
          /\ \A c \in Cids \ Forwarded : channelState'[c] = channelState[c]]_vars

\* C28 witness: of two channels in the table one has been handed two
\* messages and the other none, and an event without cid has been
\* dispatched since
C28_Witness ==
    /\ activeChannels = Cids
    /\ \E c \in Cids, d \in Cids :
          /\ Len(chanLog[c]) = 2 /\ Len(channelState[c].messages) = 2
          /\ chanLog[d] = <<>> /\ channelState[d] = EmptyState
    /\ pc = "listeners" /\ cur.cid = NoCid

\* the client after the changes the claim C29 lists for an event
ListedChanges(c, e) ==
    IF e.type \in {"user.presence.changed", "user.updated"}
    THEN [c EXCEPT !.state[e.user.id] = e.user]
    ELSE IF e.type = "health.check" /\ e.me # NoUser
    THEN [c EXCEPT !.user = e.me, !.state[e.me.id] = e.me]
    ELSE c

\* C29 as stated: the changes a dispatch makes to the state of the client
\* are those listed and no other: the user of a user.presence.changed or
\* user.updated event is stored in the user cache, the 'me' of a
\* health.check is made the user of the session and stored; nothing else of
\* the client changes, at the start of the dispatch or after.
C29_Original ==
    [][DispatchStep =>
          IF pc = "idle" /\ pc' = "listeners"
          THEN client' = ListedChanges(client, cur')
          ELSE client' = client]_vars

\* C29: the changes a dispatch makes to the state of the client are these
\* and no other: the user of a user.presence.changed or user.updated event
\* is stored in the user cache under its id; the 'me' of a health.check is
\* made the user of the session and stored in the user cache, a
\* health.check without 'me' changes nothing; a notification.message_new
\* event stores the configuration of its channel under the channel's type;
\* every other event leaves the client as it is.
C29_ClientStateChanges ==
    [][DispatchStep =>
          IF pc = "idle" /\ pc' = "listeners"
          THEN client' = IF cur'.type = "notification.message_new"
                         THEN [client EXCEPT !.configs[cur'.channel.type] = cur'.channel.config]
                         ELSE ListedChanges(client, cur')
          ELSE client' = client]_vars

\* C29 witness: the session has stored a user of a user.updated event, its
\* own user from a health.check and the configuration of a channel type,
\* and is dispatching a health.check without 'me'
C29_Witness ==
    /\ client.state["u2"] = UserOf("u2")
    /\ client.user = [UserOf("u1") EXCEPT !.qs = MaxQs + 1]
    /\ client.state["u1"] = client.user
    /\ client.configs["messaging"] = "commands"
    /\ pc = "listeners" /\ cur.type = "health.check" /\ cur.me = NoUser
\* the calls that start a session, with the client and connections as they
\* are
Starts ==
    {setUser(client, conns, id, t, MaxQs) : id \in UserIds, t \in Tokens}
    \cup {setAnonymousUser(client, conns)}

\* C30: the client ID is made at the start of a session, from the user id
\* and a fresh uuid, before the connection manager is created; every
\* connection manager is created with the client ID and the user id the
\* client holds then, connect() leaving the client ID as it is; and no
\* step but a session start changes the client ID: no reconnect, recovery
\* run, event or query.
C30_ClientIdStable ==
    /\ [](CanCreate =>
            /\ \A r \in Starts :
                  r.res = "ok" =>
                     /\ r.client.UUID = client.UUID + 1
                     /\ r.client.clientID = <<r.client.userID, r.client.UUID>>
                     /\ r.options = [clientID |-> r.client.clientID,
                                     userID |-> r.client.userID]
            /\ LET r == connect(client, conns)
               IN r.res = "ok" =>
                     /\ r.client.clientID = client.clientID
                     /\ r.options = [clientID |-> client.clientID, userID |-> client.userID])
    /\ [][client'.clientID # client.clientID =>
             /\ lastCall'.op \in {"setUser", "setAnonymousUser", "setGuestUser"}
             /\ lastCall'.res = "ok"
             /\ client'.clientID = <<client'.userID, client'.UUID>>]_vars

\* C30 witness: the session of u1 has its first client ID after its
\* connection closed and reopened, the recovery run queried its channel and
\* emitted connection.recovered, and a health check was dispatched
C30_Witness ==
    /\ client.clientID = <<"u1", 1>> /\ client.userID = "u1"
    /\ conns[client.wsConnection] = "connected"
    /\ rec.pc = "idle" /\ rec.res = "ok" /\ rec.queried /\ rec.emitted = 1
    /\ lastCall.op = "dispatchEvent" /\ client.state["u1"] = UserOf("u1")

\* a run of recoverState begins
RunBegins == rec.pc = "idle" /\ rec' # rec

\* the results of a recoverState whose query rejected
QueryRejected == {"throw:http", "throw:connect", "throw:credentials"}

\* C31: recoverState is called when a reconnect succeeded, never when a
\* connection opens for the first time, and at no other moment; the
\* connection is connected again only when the run has returned; a run
\* whose query rejected has dispatched no connection.recovered event, and
\* after it the connection is reconnecting again, not failed, its promise
\* untouched.
C31_RecoveryAfterReconnect ==
    /\ [][/\ \A i \in 1..MaxConns :
               /\ (conns[i] \in {"connecting", "retrying"} /\ conns'[i] = "connected")
                     => rec' = rec
               /\ (conns[i] = "reconnecting" /\ conns'[i] \notin {"reconnecting", "disconnected"})
                     => /\ conns'[i] = "recovering"
                        /\ rec' = [rec' EXCEPT !.emitted = 0]
                        /\ IF activeChannels = {} THEN rec' = [NoRecovery EXCEPT !.res = "ok"]
                           ELSE rec'.cids = activeChannels /\ query'.recovery
               /\ (conns'[i] = "connected" /\ conns[i] \notin {"connected", "connecting", "retrying"})
                     => conns[i] = "recovering" /\ rec.pc = "idle" /\ rec.res = "ok"
               /\ (conns[i] = "recovering" /\ rec.pc = "idle" /\ rec.res \in QueryRejected
                     /\ conns'[i] # conns[i])
                     => conns'[i] \in {"reconnecting", "disconnected"} /\ wsPromises' = wsPromises
          /\ RunBegins => \E i \in 1..MaxConns :
                             conns[i] = "reconnecting" /\ conns'[i] = "recovering"
          /\ (cur'.type = "connection.recovered" /\ cur.type # "connection.recovered")
               => query.pc = "idle" /\ query.res = "ok" /\ query.recovery]_vars
    /\ []((rec.pc = "idle" /\ rec.res \in QueryRejected) => rec.emitted = 0)

\* C31 witness: the query of the recovery run of a reconnected connection
\* was rejected; no event was dispatched and the connection is reconnecting
\* again, its promise resolved as before
C31_Witness ==
    \E i \in 1..MaxConns :
        /\ lastCall = Call("recovered", "throw:http", "ok", i)
        /\ conns[i] = "reconnecting" /\ wsPromises[i] = "resolved"
        /\ rec.cids # {} /\ rec.emitted = 0 /\ pc = "idle"

\* a socket of connection i opens in the step
Opens(i) == conns'[i] \in {"connected", "recovering"} /\ conns'[i] # conns[i]

\* C32: once disconnect() has been called, and until the next session
\* starts, no socket is opened and no recovery callback begins, whatever the
\* connections of the session were doing when disconnect() was called.
C32_DisconnectFinal ==
    [][~Truthy(client.userID) =>
          /\ \A i \in 1..MaxConns : ~Opens(i)
          /\ ~RunBegins]_vars

\* the steps of C32 on the connection disconnect() closed
C32_CurrentConnectionFinal ==
    [][\A i \in 1..MaxConns : conns[i] = "disconnected" => conns'[i] = "disconnected"]_vars

\* C33: a location.sharing_stopped event for user U applied to channel C
\* removes the entry of U from the mapping of C and changes no other entry:
\* those of the other users of C and those of U and of every user on the
\* other channels are as before.
C33_StopScoped ==
    [][(AppliesLocation /\ cur.type = "location.sharing_stopped") =>
          \A c \in Cids, u \in UserIds :
             Shared(channelState', c, u) =
                IF c = cur.cid /\ u = cur.user.id THEN NoLocation
                ELSE Shared(channelState, c, u)]_vars

\* C33 witness: the sharing of a user on a channel was stopped, its entry is
\* gone, and another entry (of another user on the channel, or of the user
\* on another channel) that was there before the stop is still held
C33_Witness ==
    \E c \in activeChannels, u \in UserIds :
        /\ lifecycle[c][u] = Stage(Stage(NoSharing, "location.sharing_started"),
                                   "location.sharing_stopped")
        /\ Shared(channelState, c, u) = NoLocation
        /\ \E d \in activeChannels, v \in UserIds :
              /\ (d = c /\ v # u) \/ (d # c /\ v = u)
              /\ lifecycle[d][v].last = "location.sharing_started"
              /\ Shared(channelState, d, v) \in Locations

\* a sequence of message ids without repetition
Unique(messages) == Cardinality(Range(messages)) = Len(messages)

\* a sequence of messages in the order of their creation (the ids follow the
\* creation times)
Chronological(messages) ==
    \A i, j \in DOMAIN messages : i < j => messages[i] <= messages[j]

\* C34: in every state, after any snapshots and message.new, message.updated
\* and message.deleted events in any order (the same message by event and by
\* snapshot, or twice), the message sequence of every cache holds no id
\* twice and is in the order of creation.
C34_UniqueAndOrdered ==
    \A c \in Cids : Unique(channelState[c].messages) /\ Chronological(channelState[c].messages)

\* C34 witness: a cache that handled three message events has taken the
\* snapshot with the messages 1 and 2 from a query response and holds the
\* messages 1, 2 and 3, each once and in order
C34_Witness ==
    \E c \in activeChannels :
        /\ Len(chanLog[c]) = 3
        /\ query.pc = "idle" /\ query.res = "ok" /\ c \in query.inited
        /\ query.snapshot.messages = {1, 2}
        /\ channelState[c].messages = <<1, 2, 3>>

\* C35: the active-channel table is empty when a setUser call that follows
\* disconnect() has started the next session: no channel of the ended
\* session is left for the events and the recovery of the new one.
C35_NoCacheOfEndedSession ==
    [][(lastCall.op = "disconnect" /\ (lastCall').op = "setUser" /\ (lastCall').res = "ok")
          => activeChannels' = {}]_vars

\* the configuration errors setUser throws after its check of the current
\* user and of the user's id
ConfigErrors == {"throw:notoken", "throw:tokenuser", "throw:toolarge"}

\* C36: a setUser call that throws for a missing token, a token of another
\* user or an oversized handshake leaves the user id, the token and the
\* client ID as they were, so that a setUser call with valid arguments that
\* follows is not rejected as a second one.
C36_FailedSetUserLeavesSession ==
    [][(/\ ~Truthy(client.userID)
        /\ \E id \in UserIds, t \in Tokens \cup {Null}, qs \in QsSizes : SetUser(id, t, qs)
        /\ (lastCall').res \in ConfigErrors)
          => /\ (client').userID = client.userID
             /\ (client').userToken = client.userToken
             /\ (client').clientID = client.clientID
             /\ \A id \in UserIds :
                   setUser(client', conns', id, createToken(id), MaxQs).res # "throw:twice"]_vars

\* C37: the listeners a dispatch calls are those gathered at its start, in
\* their order, whatever on() and off() calls its listeners made meanwhile:
\* a listener removed during the dispatch is called, one added is not.
C37_FixedAtStart ==
    [][(EndsDispatch /\ reentered > 0) => Called = gather(startListeners, cur.type)]_vars

\* the part of C37 on the gathering: the listeners called and those still to
\* be called are the ones gathered at the start of the dispatch, and on() and
\* off() calls made during a dispatch change the registry only
C37_GatheredOnce ==
    /\ [](pc = "listeners" => invoked \o pending = gather(startListeners, cur.type))
    /\ [][(pc = "listeners" /\ reentered' = reentered + 1)
            => (invoked' = invoked /\ pending' = pending)]_vars

\* C38: in every state of a client constructed with a secret, the request a
\* helper would send carries a token that is not empty: _addClientParams
\* does not throw and sets the user's token or the server token as the
\* Authorization header.
C38_ServerRequestsAuthorized ==
    client.secret # Null =>
        /\ ~_addClientParams(client).thrown
        /\ _addClientParams(client).token \notin {"", Null, Undefined}

\* C39: between disconnect() and the next session start no step sets the
\* user of the session or stores a user in the user cache: while the client
\* has no current user id, its user record and its user cache stay as they
\* are.
C39_IdentityStaysCleared ==
    [][(~Truthy(client.userID) /\ ~Truthy((client').userID))
          => /\ (client').user = client.user
             /\ (client').state = client.state]_vars

\* C40: a queryChannels, queryUsers or search call made after disconnect()
\* and before the next session start does not wait for the connect promise
\* of the closed session and does not throw what that promise rejected with.
C40_QueryAfterDisconnect ==
    [][(lastCall.op = "disconnect" /\ \E kind \in Kinds : QueryStart(kind))
          => /\ (query').pc # "ws"
             /\ (query').res # "throw:connect"]_vars

====
